---- MODULE Spec2Model ----
(***************************************************************************)
(* Conversation orchestration core of the Lao hotel chatbot: the          *)
(* per-session booking state machine (services/conversation.py), the       *)
(* orchestrator (services/chatbot.py and the monolithic app.py), and the   *)
(* rooms table operations (database/operations.py) with the booking        *)
(* management routes that call them (routes/booking_routes.py).            *)
(*                                                                         *)
(* Granularity.  A chatbot turn is one step: generate_orchestrated_answer  *)
(* of the backend contains no await, and the only inventory write of a     *)
(* turn is the single UPDATE of book_room_in_db.  The booking management   *)
(* operations issue a SELECT and then an UPDATE on a connection in         *)
(* autocommit-until-DML mode, so each statement is its own step and other  *)
(* clients of the same database file may run between the two.              *)
(***************************************************************************)
EXTENDS Integers, Sequences, FiniteSets, TLC

VARIABLES
    build,              \* which server runs: "backend" (backend/main.py) or "monolith" (app.py)
    rooms,              \* rooms table: roomNumber -> row
    states,             \* ConversationManager.states (dict: session id -> state name)
    pending_bookings,   \* ConversationManager.pending_bookings (dict: session id -> draft)
    pc,                 \* position of each booking-management request between its statements
    last,               \* what the last operation was given, computed and returned
    abandoned,          \* generator threads still running after wait_for gave up on them
    seen                \* what GET /rooms/available/ returned last, and the table it read

vars == <<build, rooms, states, pending_bookings, pc, last, abandoned, seen>>

(***************************************************************************)
(* Bounds of the model.                                                    *)
(***************************************************************************)
NumRooms == 2       \* rooms of ROOM_NUMBERS that are modelled
NumSessions == 2    \* session ids in use
NumAdmins == 2      \* booking-management requests that may be in flight together
MaxDate == 2        \* calendar days 1..MaxDate
MaxWords == 2       \* whitespace-separated tokens of a room-choice message
MaxAbandoned == 1   \* abandoned generator threads that may still be running
MaxMatches == 3     \* D/M/YYYY patterns in a text given to parse_dates alone
NumChunks == 3      \* chunks of the knowledge base

ROOM_NUMBERS == 1..NumRooms
Sessions == 1..NumSessions
Admins == 1..NumAdmins
ChatAdmins == {1}     \* beside the chatbot, one booking-management request at a time
Dates == 1..MaxDate

(***************************************************************************)
(* Values.                                                                 *)
(***************************************************************************)
NoDate == 0                 \* SQL NULL in a date column / key absent in a draft
NoRoom == 0                 \* Python None for selected_room
NoDates == <<>>             \* Python None returned by parse_dates
OtherWord == 0              \* a token that is no room number
Today == 0                  \* datetime.now(), as a day number
BOOKING_SIMILARITY_THRESHOLD == 65  \* hundredths
RAG_CONFIDENCE_THRESHOLD == 40      \* hundredths
RAG_TOP_K == 2
NoDur == -1                 \* no '<n> <unit>' duration phrase in the text

NoteNull == [kind |-> "null", session |-> 0]
NoteChat(s) == [kind |-> "chatbot", session |-> s]     \* f"Booked via Chatbot session {session_id}"
NoteManual == [kind |-> "manual", session |-> 0]       \* "Manual booking via admin"
NoteUpdated == [kind |-> "updated", session |-> 0]     \* a note given to update_room_booking
NoteCancelled == [kind |-> "cancelled", session |-> 0] \* "Cancelled" / "Cancelled: <reason>"
NoteKeep == [kind |-> "keep", session |-> 0]           \* note=None: column not updated

Row(st, sd, ed, n) == [status |-> st, reserveStartDate |-> sd, reserveEndDate |-> ed, note |-> n]
FreshRow == Row("Available", NoDate, NoDate, NoteNull)

Draft(r, sd, ed) == [room |-> r, start_date |-> sd, end_date |-> ed]

Min(a, b) == IF a <= b THEN a ELSE b
Max(a, b) == IF a <= b THEN b ELSE a

(***************************************************************************)
(* database/operations.py                                                  *)
(***************************************************************************)
\* SELECT roomNumber FROM rooms WHERE status = 'Available'
get_available_rooms_from_db(rms) == {r \in DOMAIN rms : rms[r].status = "Available"}

\* SELECT * FROM rooms WHERE roomNumber = ?
get_room_details_from_db(rms, r) == rms[r]

\* Faulty variant of book_room_in_db: the UPDATE without "AND status = 'Available'".
book_room_unconditional(rms, r, sd, ed, note, err) ==
    IF err THEN [rooms |-> rms, ok |-> FALSE]
    ELSE [rooms |-> [rms EXCEPT ![r] = Row("Booked", sd, ed, note)], ok |-> TRUE]

\* Faulty variant of select_available: the rooms returned are put on hold.
select_available_holding(rms) ==
    [rooms |-> [r \in DOMAIN rms |->
                   IF rms[r].status = "Available"
                   THEN Row("Booked", NoDate, NoDate, NoteNull) ELSE rms[r]],
     listed |-> get_available_rooms_from_db(rms)]

\* get_available_rooms_from_db as a database session: the SELECT's result and the table
\* it leaves (no write, no commit).
select_available(rms) == [rooms |-> rms, listed |-> get_available_rooms_from_db(rms)]

NotSeen == [called |-> FALSE, again |-> FALSE, rooms |-> <<>>, listed |-> {}]

\* Faulty variant of book_room_in_db: a Booked room is booked again when the dates asked
\* for do not overlap the reservation it carries.
book_room_if_dates_free(rms, r, sd, ed, note, err) ==
    IF err THEN [rooms |-> rms, ok |-> FALSE]
    ELSE IF \/ rms[r].status = "Available"
            \/ ed < rms[r].reserveStartDate
            \/ rms[r].reserveEndDate < sd
         THEN [rooms |-> [rms EXCEPT ![r] = Row("Booked", sd, ed, note)], ok |-> TRUE]
         ELSE [rooms |-> rms, ok |-> FALSE]

\* Faulty variant of book_room_in_db: the two date columns receive each other's value.
book_room_in_db_dates_swapped(rms, r, sd, ed, note, err) ==
    IF err THEN [rooms |-> rms, ok |-> FALSE]
    ELSE IF rms[r].status = "Available"
         THEN [rooms |-> [rms EXCEPT ![r] = Row("Booked", ed, sd, note)], ok |-> TRUE]
         ELSE [rooms |-> rms, ok |-> FALSE]

\* UPDATE rooms SET status='Booked', ... WHERE roomNumber = ? AND status = 'Available';
\* returns rowcount > 0, and False when the statement raises sqlite3.Error.
book_room_in_db(rms, r, sd, ed, note, err) ==
    IF err THEN [rooms |-> rms, ok |-> FALSE]
    ELSE IF rms[r].status = "Available"
         THEN [rooms |-> [rms EXCEPT ![r] = Row("Booked", sd, ed, note)], ok |-> TRUE]
         ELSE [rooms |-> rms, ok |-> FALSE]

\* The UPDATE of update_room_booking: only the given columns, WHERE roomNumber = ?
update_statement(rms, r, sd, ed, note) ==
    [rms EXCEPT ![r] = Row(@.status,
                           IF sd # NoDate THEN sd ELSE @.reserveStartDate,
                           IF ed # NoDate THEN ed ELSE @.reserveEndDate,
                           IF note # NoteKeep THEN note ELSE @.note)]

\* The UPDATE of cancel_room_booking: WHERE roomNumber = ?
cancel_statement(rms, r) ==
    [rms EXCEPT ![r] = Row("Available", NoDate, NoDate, NoteCancelled)]

(***************************************************************************)
(* services/conversation.py: ConversationManager                           *)
(***************************************************************************)
get_state(st, s) == IF s \in DOMAIN st THEN st[s] ELSE "NORMAL"

HasDraft(pb, s) == s \in DOMAIN pb

Remove(f, s) == [k \in (DOMAIN f) \ {s} |-> f[k]]

\* set_state(session_id, state): booking_info omitted, the draft map is untouched.
set_state(st, pb, s, state) == [states |-> (s :> state) @@ st, pending |-> pb]

\* set_state(session_id, state, booking_info=info)
set_state_info(st, pb, s, state, info) ==
    [states |-> (s :> state) @@ st, pending |-> (s :> info) @@ pb]

\* Faulty variant of clear_session: the state entry is deleted, the draft is kept.
clear_session_keeping_draft(st, pb, s) ==
    [states |-> Remove(st, s), pending |-> pb, cleared |-> s \in DOMAIN st]

\* Faulty variant of clear_session: the whole maps are emptied, not the session's entries.
clear_session_of_everyone(st, pb, s) ==
    [states |-> <<>>, pending |-> <<>>,
     cleared |-> (s \in DOMAIN st) \/ (s \in DOMAIN pb)]

\* Faulty variant of clear_session: the return value tells only whether a state entry
\* was deleted.
clear_session_reporting_state(st, pb, s) ==
    [states |-> Remove(st, s), pending |-> Remove(pb, s), cleared |-> s \in DOMAIN st]

\* if session_id in self.states: del ...; if session_id in self.pending_bookings: del ...
clear_session(st, pb, s) ==
    [states |-> Remove(st, s), pending |-> Remove(pb, s),
     cleared |-> (s \in DOMAIN st) \/ (s \in DOMAIN pb)]

(***************************************************************************)
(* A user message, by what the handlers look for in it.                    *)
(***************************************************************************)
Msg(price, confirm, kw, score, words, pats, tomorrow, dur) ==
    [price |-> price,         \* a PRICE_INQUIRY_KEYWORDS literal is a substring
     confirm |-> confirm,     \* a CONFIRMATION_KEYWORDS literal is a substring
     kw |-> kw,               \* a BOOKING_INTENT_KEYWORDS literal is a substring
     score |-> score,         \* cosine similarity to the booking phrase, hundredths
     words |-> words,         \* user_input.split(): room numbers and other tokens
     pats |-> pats,           \* D/M/YYYY matches: a day number, or NoDate if no calendar date
     tomorrow |-> tomorrow,   \* "tomorrow" marker present
     dur |-> dur]             \* n of the first '<n> <unit>' phrase, or NoDur

Plain == Msg(FALSE, FALSE, FALSE, 0, <<>>, <<>>, FALSE, NoDur)

Scores == {BOOKING_SIMILARITY_THRESHOLD, BOOKING_SIMILARITY_THRESHOLD + 1}

WordSeqs == UNION {[1..n -> ROOM_NUMBERS \cup {OtherWord}] : n \in 0..MaxWords}
PatSeqs == {<<>>} \cup [1..2 -> Dates \cup {NoDate}]
Durations == {NoDur} \cup (0..(MaxDate - 1))

\* Messages sent in each state: the features the dispatched handler reads vary.
NormalMsgs == {[Plain EXCEPT !.kw = k, !.score = sc] : k \in BOOLEAN, sc \in Scores}
RoomMsgs == {[Plain EXCEPT !.price = p, !.words = w] : p \in BOOLEAN, w \in WordSeqs}
DateTexts ==
    {[Plain EXCEPT !.pats = ps] : ps \in PatSeqs}
    \cup {[Plain EXCEPT !.tomorrow = TRUE, !.dur = d] : d \in Durations}
    \cup {[Plain EXCEPT !.dur = 1], [Plain EXCEPT !.pats = <<NoDate, 1>>, !.tomorrow = TRUE, !.dur = 0]}
DateMsgs == {[m EXCEPT !.price = p] : m \in DateTexts, p \in BOOLEAN}
ConfirmMsgs == {[Plain EXCEPT !.price = p, !.confirm = c] : p \in BOOLEAN, c \in BOOLEAN}

MsgsIn(state) ==
    CASE state = "AWAITING_ROOM_CHOICE" -> RoomMsgs
      [] state = "AWAITING_DATES" -> DateMsgs
      [] state = "AWAITING_BOOKING_CONFIRMATION" -> ConfirmMsgs
      [] OTHER -> NormalMsgs

(***************************************************************************)
(* services/conversation.py: parsing and detection                         *)
(***************************************************************************)
\* datetime.date: the proleptic Gregorian calendar behind strptime, min and max.
is_leap(y) == y % 4 = 0 /\ (y % 100 # 0 \/ y % 400 = 0)

days_in_month(y, mo) ==
    IF mo = 2 THEN (IF is_leap(y) THEN 29 ELSE 28)
    ELSE IF mo \in {4, 6, 9, 11} THEN 30 ELSE 31

days_before_year(y) == (y - 1) * 365 + ((y - 1) \div 4) - ((y - 1) \div 100) + ((y - 1) \div 400)

RECURSIVE days_before_month(_, _)
days_before_month(y, mo) ==
    IF mo = 1 THEN 0 ELSE days_before_month(y, mo - 1) + days_in_month(y, mo - 1)

\* date.toordinal(): dates compare as their ordinals do.
toordinal(d, mo, y) == days_before_year(y) + days_before_month(y, mo) + d

\* datetime.strptime(f"{D}-{M}-{YYYY}", '%d-%m-%Y').date() of one regex match <<D, M, YYYY>>:
\* the date's ordinal, or NoDate where strptime raises ValueError.
strptime(t) ==
    IF t[3] >= 1 /\ t[2] \in 1..12 /\ t[1] >= 1 /\ t[1] <= days_in_month(t[3], t[2])
    THEN toordinal(t[1], t[2], t[3])
    ELSE NoDate

DateMaxOrdinal == 3652059                   \* date.max.toordinal(), 31/12/9999
TodayOrdinal == toordinal(1, 1, 2025)       \* the ordinal of the day called Today
OverflowError == <<NoDate>>                 \* parse_dates raises instead of returning

\* Faulty variant of parse_dates: the explicit pair is returned in the order of the text.
parse_dates_unsorted(m) ==
    IF Len(m.pats) >= 2 /\ m.pats[1] # NoDate /\ m.pats[2] # NoDate
    THEN <<m.pats[1], m.pats[2]>>
    ELSE IF m.tomorrow /\ m.dur # NoDur
         THEN IF TodayOrdinal + 1 + m.dur > DateMaxOrdinal
              THEN OverflowError
              ELSE <<Today + 1, Today + 1 + m.dur>>
         ELSE NoDates

parse_dates(m) ==
    IF Len(m.pats) >= 2 /\ m.pats[1] # NoDate /\ m.pats[2] # NoDate
    THEN <<Min(m.pats[1], m.pats[2]), Max(m.pats[1], m.pats[2])>>
    ELSE IF m.tomorrow /\ m.dur # NoDur
         THEN IF TodayOrdinal + 1 + m.dur > DateMaxOrdinal
              THEN OverflowError       \* start_date + timedelta(days=days) out of range
              ELSE <<Today + 1, Today + 1 + m.dur>>
         ELSE NoDates

detect_price_inquiry(m) == m.price

\* backend: "if model_store.retriever and model_store.booking_intent_embedding" takes
\* the truth value of a multi-element tensor, which raises inside the try; the bare
\* except swallows it.  monolith: encode / cos_sim, any exception gives False.
detect_booking_intent(bld, m, embed) ==
    IF m.kw THEN TRUE
    ELSE IF bld = "monolith" /\ embed = "ok" THEN m.score > BOOKING_SIMILARITY_THRESHOLD
    ELSE FALSE

\* Faulty variant of FirstRoom: the last room number of the message instead of the first.
RECURSIVE LastRoom(_)
LastRoom(w) ==
    IF w = <<>> THEN NoRoom
    ELSE IF w[Len(w)] \in ROOM_NUMBERS THEN w[Len(w)] ELSE LastRoom(SubSeq(w, 1, Len(w) - 1))

\* next((word for word in user_input.split() if word in ROOM_NUMBERS), None)
RECURSIVE FirstRoom(_)
FirstRoom(w) ==
    IF w = <<>> THEN NoRoom
    ELSE IF w[1] \in ROOM_NUMBERS THEN w[1] ELSE FirstRoom(Tail(w))

RoomTokens(w) == {w[i] : i \in 1..Len(w)} \cap ROOM_NUMBERS

(***************************************************************************)
(* services/conversation.py: the four handlers.  A handler's result holds  *)
(* the session store and rooms table it leaves, the (reply, source) pair   *)
(* it returns ("RAISED": an sqlite3.Error of an inventory read left the    *)
(* handler), the locals a reader of the code would inspect, and the room   *)
(* numbers the reply text lists (listed).                                  *)
(* A date string 'YYYY-MM-DD' is written as its day number: strftime is    *)
(* one-to-one and order preserving on dates.                               *)
(***************************************************************************)
HRes(st, pb, rms, reply, src) ==
    [states |-> st, pending |-> pb, rooms |-> rms, reply |-> reply, src |-> src,
     selected |-> NoRoom, dates |-> NoDates, books |-> 0, success |-> FALSE, dberr |-> FALSE,
     listed |-> {}]

Raised(st, pb, rms) == [HRes(st, pb, rms, "NONE", "RAISED") EXCEPT !.dberr = TRUE]

\* Faulty variant of handle_booking_request: the room list is proposed even when empty.
handle_booking_request_always_list(st, pb, rms, s, dbErr) ==
    IF dbErr THEN Raised(st, pb, rms)
    ELSE LET n == set_state(st, pb, s, "AWAITING_ROOM_CHOICE")
         IN [HRes(n.states, n.pending, rms, "ROOM_LIST", "BOOKING_SUGGESTION")
                EXCEPT !.listed = get_available_rooms_from_db(rms)]

\* Faulty variant of handle_booking_request: the rooms proposed are the list made when
\* the table was populated, not the rows that are Available now.
handle_booking_request_cached(st, pb, rms, s, dbErr) ==
    LET available_rooms == get_available_rooms_from_db(rms) IN
    IF dbErr THEN Raised(st, pb, rms)
    ELSE IF available_rooms = {}
         THEN HRes(st, pb, rms, "NO_ROOMS", "STATUS_CHECK")
         ELSE LET n == set_state(st, pb, s, "AWAITING_ROOM_CHOICE")
              IN [HRes(n.states, n.pending, rms, "ROOM_LIST", "BOOKING_SUGGESTION")
                     EXCEPT !.listed = ROOM_NUMBERS]

handle_booking_request(st, pb, rms, s, dbErr) ==
    LET available_rooms == get_available_rooms_from_db(rms) IN
    IF dbErr THEN Raised(st, pb, rms)
    ELSE IF available_rooms = {}
         THEN HRes(st, pb, rms, "NO_ROOMS", "STATUS_CHECK")
         ELSE LET n == set_state(st, pb, s, "AWAITING_ROOM_CHOICE")
              IN [HRes(n.states, n.pending, rms, "ROOM_LIST", "BOOKING_SUGGESTION")
                     EXCEPT !.listed = available_rooms]

\* Faulty variant of handle_room_selection: choosing a room places a hold on it by
\* marking its row Booked.
handle_room_selection_holding(priceCheck, st, pb, rms, s, m, dbErr) ==
    LET selected_room == FirstRoom(m.words) IN
    IF priceCheck /\ detect_price_inquiry(m)
    THEN HRes(st, pb, rms, "FOCUS_ROOM", "FOCUS_ON_BOOKING")
    ELSE IF selected_room = NoRoom
    THEN HRes(st, pb, rms, "NO_ROOM_NUMBER", "INVALID_ROOM")
    ELSE IF dbErr
    THEN [Raised(st, pb, rms) EXCEPT !.selected = selected_room]
    ELSE IF get_room_details_from_db(rms, selected_room).status # "Available"
    THEN [HRes(st, pb, rms, "ROOM_TAKEN", "STATUS_CHECK")
             EXCEPT !.selected = selected_room, !.listed = get_available_rooms_from_db(rms)]
    ELSE LET n == set_state_info(st, pb, s, "AWAITING_DATES",
                                 Draft(selected_room, NoDate, NoDate))
         IN [HRes(n.states, n.pending,
                  [rms EXCEPT ![selected_room] = Row("Booked", NoDate, NoDate, NoteChat(s))],
                  "ASK_DATES", "DATE_REQUEST")
                EXCEPT !.selected = selected_room]

\* Faulty variant of handle_room_selection: the state is advanced with no booking_info.
handle_room_selection_without_draft(priceCheck, st, pb, rms, s, m, dbErr) ==
    LET selected_room == FirstRoom(m.words) IN
    IF priceCheck /\ detect_price_inquiry(m)
    THEN HRes(st, pb, rms, "FOCUS_ROOM", "FOCUS_ON_BOOKING")
    ELSE IF selected_room = NoRoom
    THEN HRes(st, pb, rms, "NO_ROOM_NUMBER", "INVALID_ROOM")
    ELSE IF dbErr
    THEN [Raised(st, pb, rms) EXCEPT !.selected = selected_room]
    ELSE IF get_room_details_from_db(rms, selected_room).status # "Available"
    THEN [HRes(st, pb, rms, "ROOM_TAKEN", "STATUS_CHECK")
             EXCEPT !.selected = selected_room, !.listed = get_available_rooms_from_db(rms)]
    ELSE LET n == set_state(st, pb, s, "AWAITING_DATES")
         IN [HRes(n.states, n.pending, rms, "ASK_DATES", "DATE_REQUEST")
                EXCEPT !.selected = selected_room]

\* Faulty variant of handle_room_selection: a room that is not Available ends the flow.
handle_room_selection_giving_up(priceCheck, st, pb, rms, s, m, dbErr) ==
    LET selected_room == FirstRoom(m.words) IN
    IF priceCheck /\ detect_price_inquiry(m)
    THEN HRes(st, pb, rms, "FOCUS_ROOM", "FOCUS_ON_BOOKING")
    ELSE IF selected_room = NoRoom
    THEN HRes(st, pb, rms, "NO_ROOM_NUMBER", "INVALID_ROOM")
    ELSE IF dbErr
    THEN [Raised(st, pb, rms) EXCEPT !.selected = selected_room]
    ELSE IF get_room_details_from_db(rms, selected_room).status # "Available"
    THEN LET n == set_state(st, pb, s, "NORMAL")
         IN [HRes(n.states, n.pending, rms, "ROOM_TAKEN", "STATUS_CHECK")
                EXCEPT !.selected = selected_room, !.listed = get_available_rooms_from_db(rms)]
    ELSE LET n == set_state_info(st, pb, s, "AWAITING_DATES",
                                 Draft(selected_room, NoDate, NoDate))
         IN [HRes(n.states, n.pending, rms, "ASK_DATES", "DATE_REQUEST")
                EXCEPT !.selected = selected_room]

\* priceCheck: conversation.py tests detect_price_inquiry first, app.py has no such test.
handle_room_selection(priceCheck, st, pb, rms, s, m, dbErr) ==
    LET selected_room == FirstRoom(m.words) IN
    IF priceCheck /\ detect_price_inquiry(m)
    THEN HRes(st, pb, rms, "FOCUS_ROOM", "FOCUS_ON_BOOKING")
    ELSE IF selected_room = NoRoom
    THEN HRes(st, pb, rms, "NO_ROOM_NUMBER", "INVALID_ROOM")
    ELSE IF dbErr
    THEN [Raised(st, pb, rms) EXCEPT !.selected = selected_room]
    ELSE IF get_room_details_from_db(rms, selected_room).status # "Available"
    THEN [HRes(st, pb, rms, "ROOM_TAKEN", "STATUS_CHECK")
             EXCEPT !.selected = selected_room, !.listed = get_available_rooms_from_db(rms)]
    ELSE LET n == set_state_info(st, pb, s, "AWAITING_DATES",
                                 Draft(selected_room, NoDate, NoDate))
         IN [HRes(n.states, n.pending, rms, "ASK_DATES", "DATE_REQUEST")
                EXCEPT !.selected = selected_room]

\* Faulty variant of handle_date_selection: None from parse_dates taken as a stay that
\* starts and ends today.
handle_date_selection_zero_stay(priceCheck, st, pb, rms, s, m) ==
    LET parsed == parse_dates(m)
        dates == IF parsed = NoDates THEN <<Today, Today>> ELSE parsed
    IN
    IF priceCheck /\ detect_price_inquiry(m)
    THEN HRes(st, pb, rms, "FOCUS_DATES", "FOCUS_ON_BOOKING")
    ELSE IF parsed = OverflowError
    THEN HRes(st, pb, rms, "NONE", "RAISED")
    ELSE IF ~HasDraft(pb, s)
    THEN [HRes(st, pb, rms, "BAD_DATES", "INVALID_DATE") EXCEPT !.dates = dates]
    ELSE LET pending_booking == [pb[s] EXCEPT !.start_date = dates[1], !.end_date = dates[2]]
             n == set_state_info(st, pb, s, "AWAITING_BOOKING_CONFIRMATION", pending_booking)
         IN [HRes(n.states, n.pending, rms, "ASK_CONFIRM", "CONFIRMATION_REQUEST")
                EXCEPT !.dates = dates]

handle_date_selection(priceCheck, st, pb, rms, s, m) ==
    LET dates == parse_dates(m) IN
    IF priceCheck /\ detect_price_inquiry(m)
    THEN HRes(st, pb, rms, "FOCUS_DATES", "FOCUS_ON_BOOKING")
    ELSE IF dates = OverflowError
    THEN HRes(st, pb, rms, "NONE", "RAISED")
    ELSE IF dates = NoDates \/ ~HasDraft(pb, s)
    THEN [HRes(st, pb, rms, "BAD_DATES", "INVALID_DATE") EXCEPT !.dates = dates]
    ELSE LET pending_booking == [pb[s] EXCEPT !.start_date = dates[1], !.end_date = dates[2]]
             n == set_state_info(st, pb, s, "AWAITING_BOOKING_CONFIRMATION", pending_booking)
         IN [HRes(n.states, n.pending, rms, "ASK_CONFIRM", "CONFIRMATION_REQUEST")
                EXCEPT !.dates = dates]

\* Faulty variant of handle_booking_confirmation: success is reported whatever
\* book_room_in_db returned.
handle_booking_confirmation_optimistic(priceCheck, st, pb, rms, s, m, dbErr) ==
    IF ~HasDraft(pb, s)
    THEN LET n == set_state(st, pb, s, "NORMAL")
         IN HRes(n.states, n.pending, rms, "RESTART", "ERROR")
    ELSE IF priceCheck /\ detect_price_inquiry(m)
    THEN HRes(st, pb, rms, "FOCUS_CONFIRM", "FOCUS_ON_BOOKING")
    ELSE IF m.confirm
    THEN LET pending_booking == pb[s]
             b == book_room_in_db(rms, pending_booking.room, pending_booking.start_date,
                                  pending_booking.end_date, NoteChat(s), dbErr)
             c == clear_session(st, pb, s)
         IN [HRes(c.states, c.pending, b.rooms,
                  "SUCCESS",
                  "BOOKING_CONFIRMED")
                EXCEPT !.selected = pending_booking.room, !.books = 1, !.success = b.ok,
                       !.dates = <<pending_booking.start_date, pending_booking.end_date>>,
                       !.dberr = dbErr]
    ELSE LET c == clear_session(st, pb, s)
         IN [HRes(c.states, c.pending, rms, "CANCELLED", "BOOKING_CANCELLED")
                EXCEPT !.selected = pb[s].room]

\* Faulty variant of handle_booking_confirmation: a failed book_room_in_db is called
\* a second time.
handle_booking_confirmation_retrying(priceCheck, st, pb, rms, s, m, dbErr) ==
    IF ~HasDraft(pb, s)
    THEN LET n == set_state(st, pb, s, "NORMAL")
         IN HRes(n.states, n.pending, rms, "RESTART", "ERROR")
    ELSE IF priceCheck /\ detect_price_inquiry(m)
    THEN HRes(st, pb, rms, "FOCUS_CONFIRM", "FOCUS_ON_BOOKING")
    ELSE IF m.confirm
    THEN LET pending_booking == pb[s]
             b1 == book_room_in_db(rms, pending_booking.room, pending_booking.start_date,
                                   pending_booking.end_date, NoteChat(s), dbErr)
             b == IF b1.ok THEN b1
                  ELSE book_room_in_db(b1.rooms, pending_booking.room,
                                       pending_booking.start_date, pending_booking.end_date,
                                       NoteChat(s), dbErr)
             c == clear_session(st, pb, s)
         IN [HRes(c.states, c.pending, b.rooms,
                  IF b.ok THEN "SUCCESS" ELSE "TRY_AGAIN",
                  IF b.ok THEN "BOOKING_CONFIRMED" ELSE "ERROR")
                EXCEPT !.selected = pending_booking.room,
                       !.books = IF b1.ok THEN 1 ELSE 2, !.success = b.ok,
                       !.dates = <<pending_booking.start_date, pending_booking.end_date>>,
                       !.dberr = dbErr]
    ELSE LET c == clear_session(st, pb, s)
         IN [HRes(c.states, c.pending, rms, "CANCELLED", "BOOKING_CANCELLED")
                EXCEPT !.selected = pb[s].room]

\* Faulty variant of handle_booking_confirmation: a declined booking resets the
\* state and leaves the draft.
handle_booking_confirmation_keeping_draft(priceCheck, st, pb, rms, s, m, dbErr) ==
    IF ~HasDraft(pb, s)
    THEN LET n == set_state(st, pb, s, "NORMAL")
         IN HRes(n.states, n.pending, rms, "RESTART", "ERROR")
    ELSE IF priceCheck /\ detect_price_inquiry(m)
    THEN HRes(st, pb, rms, "FOCUS_CONFIRM", "FOCUS_ON_BOOKING")
    ELSE IF m.confirm
    THEN LET pending_booking == pb[s]
             b == book_room_in_db(rms, pending_booking.room, pending_booking.start_date,
                                  pending_booking.end_date, NoteChat(s), dbErr)
             c == clear_session(st, pb, s)
         IN [HRes(c.states, c.pending, b.rooms,
                  IF b.ok THEN "SUCCESS" ELSE "TRY_AGAIN",
                  IF b.ok THEN "BOOKING_CONFIRMED" ELSE "ERROR")
                EXCEPT !.selected = pending_booking.room, !.books = 1, !.success = b.ok,
                       !.dates = <<pending_booking.start_date, pending_booking.end_date>>,
                       !.dberr = dbErr]
    ELSE LET n == set_state(st, pb, s, "NORMAL")
         IN [HRes(n.states, n.pending, rms, "CANCELLED", "BOOKING_CANCELLED")
                EXCEPT !.selected = pb[s].room]

handle_booking_confirmation(priceCheck, st, pb, rms, s, m, dbErr) ==
    IF ~HasDraft(pb, s)
    THEN LET n == set_state(st, pb, s, "NORMAL")
         IN HRes(n.states, n.pending, rms, "RESTART", "ERROR")
    ELSE IF priceCheck /\ detect_price_inquiry(m)
    THEN HRes(st, pb, rms, "FOCUS_CONFIRM", "FOCUS_ON_BOOKING")
    ELSE IF m.confirm
    THEN LET pending_booking == pb[s]
             b == book_room_in_db(rms, pending_booking.room, pending_booking.start_date,
                                  pending_booking.end_date, NoteChat(s), dbErr)
             c == clear_session(st, pb, s)
         IN [HRes(c.states, c.pending, b.rooms,
                  IF b.ok THEN "SUCCESS" ELSE "TRY_AGAIN",
                  IF b.ok THEN "BOOKING_CONFIRMED" ELSE "ERROR")
                EXCEPT !.selected = pending_booking.room, !.books = 1, !.success = b.ok,
                       !.dates = <<pending_booking.start_date, pending_booking.end_date>>,
                       !.dberr = dbErr]
    ELSE LET c == clear_session(st, pb, s)
         IN [HRes(c.states, c.pending, rms, "CANCELLED", "BOOKING_CANCELLED")
                EXCEPT !.selected = pb[s].room]

(***************************************************************************)
(* What the surroundings do to a turn: failing chat_history writes, a      *)
(* failing inventory statement, the embedding model and the generator.     *)
(***************************************************************************)
Env(hist, errw, db, embed, gen) ==
    [hist |-> hist,     \* the chat_history INSERT that fails: "none", "user" or "reply"
     errw |-> errw,     \* the INSERT of the apology row fails as well
     db |-> db,         \* the handler's inventory statement raises sqlite3.Error
     embed |-> embed,   \* retriever: "ok", "missing" (not loaded) or "raises"
     gen |-> gen]       \* generator: "ok", "timeout" (done, but after more than
                        \* LLM_TIMEOUT_SECONDS), "oom" or "error"

Quiet == Env("none", FALSE, FALSE, "ok", "ok")

\* At most one thing goes wrong in a turn, and then the apology row may fail as well.
Faults ==
    {Quiet}
    \cup {[Quiet EXCEPT !.hist = h, !.errw = w] : h \in {"user", "reply"}, w \in BOOLEAN}
    \cup {[Quiet EXCEPT !.db = TRUE, !.errw = w] : w \in BOOLEAN}

EnvsIn(state) ==
    CASE state = "NORMAL" ->
            Faults \cup {[Quiet EXCEPT !.embed = em] : em \in {"missing", "raises"}}
                   \cup {[Quiet EXCEPT !.gen = g] : g \in {"timeout", "oom", "error"}}
      [] state = "AWAITING_DATES" -> {e \in Faults : ~e.db}
      [] OTHER -> Faults

(***************************************************************************)
(* services/chatbot.py and app.py: generate_orchestrated_answer            *)
(***************************************************************************)
\* Faulty variant of rag_answer: app.py waits for the generator however long it takes.
rag_answer_awaiting(bld, st, pb, rms, e) ==
    IF bld = "backend"
    THEN HRes(st, pb, rms, IF e.gen \in {"ok", "timeout"} THEN "LLM" ELSE "LLM_APOLOGY",
              "LLM_WITH_RAG")
    ELSE HRes(st, pb, rms, IF e.gen \in {"ok", "timeout"} THEN "LLM" ELSE "LLM_APOLOGY",
              "RAG_FINETUNED_LLM")

\* RAG + generation for a general question: (reply, source), no state touched.
rag_answer(bld, st, pb, rms, e) ==
    IF bld = "backend"
    THEN HRes(st, pb, rms, IF e.gen \in {"ok", "timeout"} THEN "LLM" ELSE "LLM_APOLOGY",
              "LLM_WITH_RAG")
    ELSE IF e.gen = "timeout"
         THEN HRes(st, pb, rms, "CONTEXT_ONLY", "RAG_CONTEXT_ONLY_TIMEOUT")
         ELSE HRes(st, pb, rms, IF e.gen = "ok" THEN "LLM" ELSE "LLM_APOLOGY", "RAG_FINETUNED_LLM")

\* Faulty variant of dispatch: the intent classifier is asked first, whatever the state.
dispatch_intent_first(bld, st, pb, rms, s, m, e) ==
    LET current_state == get_state(st, s)
        priceCheck == (bld = "backend")
    IN IF detect_booking_intent(bld, m, e.embed)
       THEN handle_booking_request(st, pb, rms, s, e.db)
       ELSE CASE current_state = "AWAITING_ROOM_CHOICE" ->
                   handle_room_selection(priceCheck, st, pb, rms, s, m, e.db)
              [] current_state = "AWAITING_DATES" ->
                   handle_date_selection(priceCheck, st, pb, rms, s, m)
              [] current_state = "AWAITING_BOOKING_CONFIRMATION" ->
                   handle_booking_confirmation(priceCheck, st, pb, rms, s, m, e.db)
              [] OTHER -> rag_answer(bld, st, pb, rms, e)

\* Faulty variant of dispatch: a general question answered in NORMAL writes the state
\* NORMAL for the session.
dispatch_marking_normal(bld, st, pb, rms, s, m, e) ==
    LET current_state == get_state(st, s)
        priceCheck == (bld = "backend")
    IN CASE current_state = "AWAITING_ROOM_CHOICE" ->
              handle_room_selection(priceCheck, st, pb, rms, s, m, e.db)
         [] current_state = "AWAITING_DATES" ->
              handle_date_selection(priceCheck, st, pb, rms, s, m)
         [] current_state = "AWAITING_BOOKING_CONFIRMATION" ->
              handle_booking_confirmation(priceCheck, st, pb, rms, s, m, e.db)
         [] OTHER ->
              IF detect_booking_intent(bld, m, e.embed)
              THEN handle_booking_request(st, pb, rms, s, e.db)
              ELSE LET n == set_state(st, pb, s, "NORMAL")
                   IN rag_answer(bld, n.states, n.pending, rms, e)

\* The if / elif chain on current_state.
dispatch(bld, st, pb, rms, s, m, e) ==
    LET current_state == get_state(st, s)
        priceCheck == (bld = "backend")
    IN CASE current_state = "AWAITING_ROOM_CHOICE" ->
              handle_room_selection(priceCheck, st, pb, rms, s, m, e.db)
         [] current_state = "AWAITING_DATES" ->
              handle_date_selection(priceCheck, st, pb, rms, s, m)
         [] current_state = "AWAITING_BOOKING_CONFIRMATION" ->
              handle_booking_confirmation(priceCheck, st, pb, rms, s, m, e.db)
         [] OTHER ->
              IF detect_booking_intent(bld, m, e.embed)
              THEN handle_booking_request(st, pb, rms, s, e.db)
              ELSE rag_answer(bld, st, pb, rms, e)

NoHandler(st, pb, rms) == HRes(st, pb, rms, "NONE", "NONE")

\* The except branch of chatbot.py: write the apology row and return ERROR; a failure
\* of that write leaves generate_orchestrated_answer as an exception.
apology(h, rows, e) ==
    IF e.errw THEN [h |-> h, reply |-> "NONE", src |-> "RAISED", rows |-> rows]
    ELSE [h |-> h, reply |-> "APOLOGY", src |-> "ERROR",
          rows |-> Append(rows, "assistant:APOLOGY")]

\* backend/services/chatbot.py
orchestrate_backend(st, pb, rms, s, m, e) ==
    IF e.hist = "user" THEN apology(NoHandler(st, pb, rms), <<>>, e)
    ELSE LET h == dispatch("backend", st, pb, rms, s, m, e) IN
         IF h.src = "RAISED" THEN apology(h, <<"user:input">>, e)
         ELSE IF e.hist = "reply" THEN apology(h, <<"user:input">>, e)
         ELSE [h |-> h, reply |-> h.reply, src |-> h.src,
               rows |-> <<"user:input", "assistant:" \o h.reply>>]

\* app.py: no try around the handlers; both rows in one transaction after them.
orchestrate_monolith(st, pb, rms, s, m, e) ==
    LET h == dispatch("monolith", st, pb, rms, s, m, e) IN
    IF h.src = "RAISED" THEN [h |-> h, reply |-> "NONE", src |-> "RAISED", rows |-> <<>>]
    ELSE [h |-> h, reply |-> h.reply, src |-> h.src,
          rows |-> IF e.hist # "none" THEN <<>> ELSE <<"user:input", "bot:" \o h.reply>>]

generate_orchestrated_answer(bld, st, pb, rms, s, m, e) ==
    IF bld = "backend" THEN orchestrate_backend(st, pb, rms, s, m, e)
    ELSE orchestrate_monolith(st, pb, rms, s, m, e)

(***************************************************************************)
(* The record of the operation whose response is being returned: what it  *)
(* was given, what its code computed and what it returns.  NoOp when no    *)
(* response is outstanding.                                                *)
(***************************************************************************)
(***************************************************************************)
(* services/ml_models.py: get_rag_context.  A context is what the returned *)
(* string is made of: one of three fixed sentences, or the chunks of the   *)
(* hits joined in the order of the hits.                                   *)
(***************************************************************************)
Context(kind, chunks) == [kind |-> kind, chunks |-> chunks]
NoContext == Context("NONE", <<>>)

\* Faulty variant of get_rag_context: a best score equal to the threshold passes.
get_rag_context_at_threshold(kb, hits, raises) ==
    IF ~kb THEN Context("NO_KNOWLEDGE_BASE", <<>>)
    ELSE IF raises THEN Context("RETRIEVAL_ERROR", <<>>)
    ELSE IF hits # <<>> /\ hits[1].score >= RAG_CONFIDENCE_THRESHOLD
         THEN Context("CHUNKS", [i \in 1..Len(hits) |-> hits[i].corpus_id])
         ELSE Context("NO_SPECIFIC_DATA", <<>>)

\* kb: rag_chunks non-empty and rag_embeddings loaded; hits: util.semantic_search(...)[0],
\* best first; raises: tokenizing, encoding or searching raises.
get_rag_context(kb, hits, raises) ==
    IF ~kb THEN Context("NO_KNOWLEDGE_BASE", <<>>)
    ELSE IF raises THEN Context("RETRIEVAL_ERROR", <<>>)
    ELSE IF hits # <<>> /\ hits[1].score > RAG_CONFIDENCE_THRESHOLD
         THEN Context("CHUNKS", [i \in 1..Len(hits) |-> hits[i].corpus_id])
         ELSE Context("NO_SPECIFIC_DATA", <<>>)

\* generate_llm_answer_sync: the chunks whose text is in f"Context: {context[:300]}...".
prompt_chunks(context) == {context.chunks[i] : i \in 1..Len(context.chunks)}

NoOp ==
    [op |-> "none", who |-> 0, room |-> NoRoom,
     price |-> FALSE, confirm |-> FALSE, intent |-> FALSE, words |-> <<>>, parsed |-> NoDates,
     dates |-> NoDates, note |-> NoteNull, books |-> 0, ok |-> FALSE, dberr |-> FALSE,
     hreply |-> "NONE", hsrc |-> "NONE", reply |-> "NONE", src |-> "NONE", rows |-> <<>>,
     listed |-> {}, env |-> Quiet, msg |-> Plain, matches |-> <<>>,
     kb |-> FALSE, hits |-> <<>>, raised |-> FALSE, context |-> NoContext, prompt |-> {}]

TurnRecord(s, cur, m, e, o) ==
    [NoOp EXCEPT !.op = "turn", !.who = s, !.room = o.h.selected,
        !.price = m.price, !.confirm = m.confirm,
        !.intent = (cur = "NORMAL" /\ detect_booking_intent(build, m, e.embed)),
        !.words = m.words, !.parsed = parse_dates(m), !.dates = o.h.dates,
        !.dberr = o.h.dberr,
        !.note = (IF o.h.books > 0 THEN NoteChat(s) ELSE NoteNull),
        !.books = o.h.books, !.ok = o.h.success,
        !.hreply = o.h.reply, !.hsrc = o.h.src,
        !.reply = o.reply, !.src = o.src, !.rows = o.rows,
        !.listed = o.h.listed, !.env = e]

(***************************************************************************)
(* Actions.                                                                *)
(***************************************************************************)
Init ==
    /\ build = "backend"
    /\ rooms = [r \in ROOM_NUMBERS |-> FreshRow]
    /\ states = <<>>
    /\ pending_bookings = <<>>
    /\ pc = [a \in Admins |-> [op |-> "idle", room |-> NoRoom]]
    /\ last = NoOp
    /\ abandoned = 0
    /\ seen = NotSeen

\* POST /ask/
Turn(s) ==
    /\ last = NoOp
    /\ \E m \in MsgsIn(get_state(states, s)), e \in EnvsIn(get_state(states, s)) :
         LET o == generate_orchestrated_answer(build, states, pending_bookings, rooms, s, m, e) IN
         /\ states' = o.h.states
         /\ pending_bookings' = o.h.pending
         /\ rooms' = o.h.rooms
         /\ last' = TurnRecord(s, get_state(states, s), m, e, o)
    /\ UNCHANGED <<build, abandoned, pc, seen>>

\* POST /clear_session/
ClearSession(s) ==
    LET c == clear_session(states, pending_bookings, s) IN
    /\ last = NoOp
    /\ states' = c.states
    /\ pending_bookings' = c.pending
    /\ last' = [NoOp EXCEPT !.op = "clear", !.who = s, !.ok = c.cleared]
    /\ UNCHANGED <<build, abandoned, rooms, pc, seen>>

(***************************************************************************)
(* routes/booking_routes.py over database/operations.py.  A request a is   *)
(* idle or stands between the SELECT and the UPDATE of its operation (a    *)
(* SELECT that lets the operation go on returns nothing to the client yet). *)
(* The arguments that only the UPDATE uses are drawn when it runs.         *)
(***************************************************************************)
Idle == [op |-> "idle", room |-> NoRoom]
At(op, r) == [op |-> op, room |-> r]

\* cancel_room_booking after its SELECT: room, with the row that fetchone() returned.
CancelAt(r, row) == [op |-> "cancel", room |-> r, saw |-> row]

AdminRecord(op, a, r, ok) == [NoOp EXCEPT !.op = op, !.who = a, !.room = r, !.ok = ok]

\* POST /bookings/manual/: get_room_details_from_db and the two status tests.
ManualCheck(a, r) ==
    /\ last = NoOp
    /\ pc[a] = Idle
    /\ \E err \in BOOLEAN :
         IF err \/ get_room_details_from_db(rooms, r).status # "Available"
         THEN /\ pc' = pc
              /\ last' = [AdminRecord("manual_check", a, r, FALSE)
                             EXCEPT !.src = IF err THEN "RAISED" ELSE "HTTP_400"]
         ELSE /\ pc' = [pc EXCEPT ![a] = At("manual", r)]
              /\ last' = NoOp
    /\ UNCHANGED <<build, abandoned, rooms, states, pending_bookings, seen>>

\* POST /bookings/manual/: book_room_in_db and the response.
ManualBook(a) ==
    /\ last = NoOp
    /\ pc[a].op = "manual"
    /\ \E sd \in Dates, ed \in Dates, err \in BOOLEAN :
         LET b == book_room_in_db(rooms, pc[a].room, sd, ed, NoteManual, err) IN
         /\ rooms' = b.rooms
         /\ last' = [AdminRecord("manual", a, pc[a].room, b.ok)
                        EXCEPT !.dates = <<sd, ed>>, !.note = NoteManual, !.books = 1,
                               !.dberr = err,
                               !.src = IF b.ok THEN "HTTP_200" ELSE "HTTP_500"]
    /\ pc' = [pc EXCEPT ![a] = Idle]
    /\ UNCHANGED <<build, abandoned, states, pending_bookings, seen>>

\* update_room_booking: SELECT ... WHERE roomNumber = ? AND status = 'Booked'
UpdateCheck(a, r) ==
    /\ last = NoOp
    /\ pc[a] = Idle
    /\ \E err \in BOOLEAN :
         IF err \/ rooms[r].status # "Booked"
         THEN /\ pc' = pc
              /\ last' = AdminRecord("update_check", a, r, FALSE)
         ELSE /\ pc' = [pc EXCEPT ![a] = At("update", r)]
              /\ last' = NoOp
    /\ UNCHANGED <<build, abandoned, rooms, states, pending_bookings, seen>>

\* update_room_booking: the UPDATE of the given columns, or True at once without any.
UpdateWrite(a) ==
    /\ last = NoOp
    /\ pc[a].op = "update"
    /\ \E sd \in Dates \cup {NoDate}, ed \in Dates \cup {NoDate},
          note \in {NoteKeep, NoteUpdated}, err \in BOOLEAN :
         LET none == (sd = NoDate /\ ed = NoDate /\ note = NoteKeep) IN
         /\ rooms' = IF none \/ err THEN rooms
                     ELSE update_statement(rooms, pc[a].room, sd, ed, note)
         /\ last' = [AdminRecord("update", a, pc[a].room, none \/ ~err)
                        EXCEPT !.dates = <<sd, ed>>, !.note = note]
    /\ pc' = [pc EXCEPT ![a] = Idle]
    /\ UNCHANGED <<build, abandoned, states, pending_bookings, seen>>

\* cancel_room_booking: SELECT ... WHERE roomNumber = ? AND status = 'Booked'
CancelCheck(a, r) ==
    /\ last = NoOp
    /\ pc[a] = Idle
    /\ \E err \in BOOLEAN :
         IF err \/ rooms[r].status # "Booked"
         THEN /\ pc' = pc
              /\ last' = AdminRecord("cancel_check", a, r, FALSE)
         ELSE /\ pc' = [pc EXCEPT ![a] = CancelAt(r, rooms[r])]
              /\ last' = NoOp
    /\ UNCHANGED <<build, abandoned, rooms, states, pending_bookings, seen>>

\* cancel_room_booking: UPDATE rooms SET status = 'Available', ... WHERE roomNumber = ?
CancelWrite(a) ==
    /\ last = NoOp
    /\ pc[a].op = "cancel"
    /\ \E err \in BOOLEAN :
         /\ rooms' = IF err THEN rooms ELSE cancel_statement(rooms, pc[a].room)
         /\ last' = AdminRecord("cancel", a, pc[a].room, ~err)
    /\ pc' = [pc EXCEPT ![a] = Idle]
    /\ UNCHANGED <<build, abandoned, states, pending_bookings, seen>>

\* The route returns its response (Answer, StandardResponse or an HTTP error).
Respond ==
    /\ last # NoOp
    /\ last.op # "generating"
    /\ last' = NoOp
    /\ UNCHANGED <<build, abandoned, rooms, states, pending_bookings, pc, seen>>

\* The chatbot alone.
NextChat ==
    \/ Respond
    \/ \E s \in Sessions : Turn(s)
    \/ \E s \in Sessions : ClearSession(s)

\* The chatbot beside manual bookings and cancellations.  update_room_booking is left
\* to NextDb: it rewrites columns of a Booked row, which no chatbot handler reads.
Next ==
    \/ Respond
    \/ \E s \in Sessions : Turn(s)
    \/ \E s \in Sessions : ClearSession(s)
    \/ \E a \in ChatAdmins, r \in ROOM_NUMBERS : ManualCheck(a, r)
    \/ \E a \in ChatAdmins : ManualBook(a)
    \/ \E a \in ChatAdmins, r \in ROOM_NUMBERS : CancelCheck(a, r)
    \/ \E a \in ChatAdmins : CancelWrite(a)

Spec == Init /\ [][Next]_vars

SpecChat == Init /\ [][NextChat]_vars

\* The booking-management routes alone, any NumAdmins requests in flight together.
NextDb ==
    \/ Respond
    \/ \E a \in Admins, r \in ROOM_NUMBERS : ManualCheck(a, r)
    \/ \E a \in Admins : ManualBook(a)
    \/ \E a \in Admins, r \in ROOM_NUMBERS : UpdateCheck(a, r)
    \/ \E a \in Admins : UpdateWrite(a)
    \/ \E a \in Admins, r \in ROOM_NUMBERS : CancelCheck(a, r)
    \/ \E a \in Admins : CancelWrite(a)

SpecDb == Init /\ [][NextDb]_vars

\* The monolithic server app.py in place of the backend.
InitMono ==
    /\ build = "monolith"
    /\ rooms = [r \in ROOM_NUMBERS |-> FreshRow]
    /\ states = <<>>
    /\ pending_bookings = <<>>
    /\ pc = [a \in Admins |-> Idle]
    /\ last = NoOp
    /\ abandoned = 0
    /\ seen = NotSeen

SpecMono == InitMono /\ [][NextChat]_vars

(***************************************************************************)
(* Properties.  A step "is a turn of s" when it leaves the record of a     *)
(* turn of s; the unprimed variables are the stores the turn started from. *)
(***************************************************************************)
(***************************************************************************)
(* The RAG path step by step.  A general question in NORMAL starts the     *)
(* generator; the turn returns when the generator is done or, in app.py,   *)
(* when asyncio.wait_for gives up after LLM_TIMEOUT_SECONDS.  The thread   *)
(* started by asyncio.to_thread cannot be cancelled: it runs on and its    *)
(* result is dropped.  chatbot.py calls the generator directly, so the     *)
(* event loop serves nothing else until the call is back.                  *)
(***************************************************************************)
(***************************************************************************)
(* ConversationManager on its own: its methods applied to any store the    *)
(* two dicts can hold, whether or not the handlers would have built it.    *)
(***************************************************************************)
StateNames == {"AWAITING_ROOM_CHOICE", "AWAITING_DATES", "AWAITING_BOOKING_CONFIRMATION"}

Drafts == {Draft(r, sd, ed) : r \in ROOM_NUMBERS, sd \in Dates \cup {NoDate},
                               ed \in Dates \cup {NoDate}}

PartialMaps(V) == UNION {[D -> V] : D \in SUBSET Sessions}

\* convo_manager.get_state(session_id)
GetState(s) ==
    /\ last = NoOp
    /\ last' = [NoOp EXCEPT !.op = "get_state", !.who = s, !.reply = get_state(states, s)]
    /\ UNCHANGED <<build, rooms, states, pending_bookings, pc, abandoned, seen>>

\* convo_manager.get_pending_booking(session_id)
GetPendingBooking(s) ==
    /\ last = NoOp
    /\ last' = [NoOp EXCEPT !.op = "get_pending_booking", !.who = s,
                   !.ok = HasDraft(pending_bookings, s)]
    /\ UNCHANGED <<build, rooms, states, pending_bookings, pc, abandoned, seen>>

InitStore ==
    /\ build = "backend"
    /\ rooms = [r \in ROOM_NUMBERS |-> FreshRow]
    /\ states \in PartialMaps(StateNames)
    /\ pending_bookings \in PartialMaps(Drafts)
    /\ pc = [a \in Admins |-> Idle]
    /\ last = NoOp
    /\ abandoned = 0
    /\ seen = NotSeen

NextStore ==
    \/ Respond
    \/ \E s \in Sessions : ClearSession(s)
    \/ \E s \in Sessions : GetState(s)
    \/ \E s \in Sessions : GetPendingBooking(s)

SpecStore == InitStore /\ [][NextStore]_vars

(***************************************************************************)
(* parse_dates on its own, applied to texts given by what its two regular  *)
(* expressions and its marker test find in them: the D/M/YYYY matches in   *)
(* the order of the text, the "tomorrow" marker, the first duration phrase. *)
(***************************************************************************)
ParseDays == {1, 29, 31}
ParseMonths == {1, 2, 12, 13}
ParseYears == {2024, 2025}
Matches == ParseDays \X ParseMonths \X ParseYears
MatchSeqs == UNION {[1..n -> Matches] : n \in 0..MaxMatches}
ParseDurations == {NoDur, 0, 2, DateMaxOrdinal}

\* The features of a text with these matches, marker and duration phrase.
TextOf(ms, tm, d) ==
    [Plain EXCEPT !.pats = [i \in 1..Len(ms) |-> strptime(ms[i])],
                  !.tomorrow = tm, !.dur = d]

\* parse_dates(text)
ParseDates ==
    /\ last = NoOp
    /\ \E ms \in MatchSeqs, tm \in BOOLEAN, d \in ParseDurations :
         last' = [NoOp EXCEPT !.op = "parse_dates", !.msg = TextOf(ms, tm, d),
                     !.matches = ms, !.parsed = parse_dates(TextOf(ms, tm, d))]
    /\ UNCHANGED <<build, rooms, states, pending_bookings, pc, abandoned, seen>>

NextParse ==
    \/ Respond
    \/ ParseDates

SpecParse == Init /\ [][NextParse]_vars

(***************************************************************************)
(* Retrieval on its own: get_rag_context and the prompt made of its result *)
(* for any knowledge base state and any hits the search can return.        *)
(***************************************************************************)
RagScores == {0, RAG_CONFIDENCE_THRESHOLD - 1, RAG_CONFIDENCE_THRESHOLD,
              RAG_CONFIDENCE_THRESHOLD + 1, 100}
Hit(c, sc) == [corpus_id |-> c, score |-> sc]
Hits == {Hit(c, sc) : c \in 1..NumChunks, sc \in RagScores}

\* semantic_search returns at most top_k hits, of different chunks, by descending score.
HitLists ==
    {h \in UNION {[1..n -> Hits] : n \in 0..RAG_TOP_K} :
        \A i \in 1..Len(h), j \in 1..Len(h) :
            i < j => (h[i].score >= h[j].score /\ h[i].corpus_id # h[j].corpus_id)}

\* chatbot.py 57-58: context = get_rag_context(user_input), then the generation call.
GetRagContext ==
    /\ last = NoOp
    /\ \E kb \in BOOLEAN, hits \in HitLists, raises \in BOOLEAN :
         LET context == get_rag_context(kb, hits, raises) IN
         last' = [NoOp EXCEPT !.op = "get_rag_context", !.kb = kb, !.hits = hits,
                     !.raised = raises, !.context = context,
                     !.prompt = prompt_chunks(context)]
    /\ UNCHANGED <<build, rooms, states, pending_bookings, pc, abandoned, seen>>

NextRag ==
    \/ Respond
    \/ GetRagContext

SpecRag == Init /\ [][NextRag]_vars

RagSources == {"LLM_WITH_RAG", "RAG_FINETUNED_LLM", "RAG_CONTEXT_ONLY_TIMEOUT"}

\* generate_orchestrated_answer up to the generation call.
AskRag(s) ==
    /\ last = NoOp
    /\ abandoned < MaxAbandoned
    /\ get_state(states, s) = "NORMAL"
    /\ \E m \in NormalMsgs :
         /\ ~detect_booking_intent(build, m, Quiet.embed)
         /\ last' = [NoOp EXCEPT !.op = "generating", !.who = s, !.msg = m,
                        !.rows = IF build = "backend" THEN <<"user:input">> ELSE <<>>]
    /\ UNCHANGED <<build, rooms, states, pending_bookings, pc, abandoned, seen>>

\* The generation call is back (with text, or having caught its own exception) and
\* the turn goes on to its end.
Generated(g) ==
    /\ last.op = "generating"
    /\ LET e == [Quiet EXCEPT !.gen = g]
           o == generate_orchestrated_answer(build, states, pending_bookings, rooms,
                                             last.who, last.msg, e)
       IN last' = TurnRecord(last.who, "NORMAL", last.msg, e, o)
    /\ UNCHANGED <<build, rooms, states, pending_bookings, pc, abandoned, seen>>

\* app.py: asyncio.TimeoutError; the reply is made from the context and the generator
\* thread is left behind.
TimedOut ==
    /\ last.op = "generating"
    /\ build = "monolith"
    /\ LET e == [Quiet EXCEPT !.gen = "timeout"]
           o == generate_orchestrated_answer(build, states, pending_bookings, rooms,
                                             last.who, last.msg, e)
       IN last' = TurnRecord(last.who, "NORMAL", last.msg, e, o)
    /\ abandoned' = abandoned + 1
    /\ UNCHANGED <<build, rooms, states, pending_bookings, pc, seen>>

\* A thread left behind finishes; nobody awaits its result.
LateDone ==
    /\ abandoned > 0
    /\ abandoned' = abandoned - 1
    /\ UNCHANGED <<build, rooms, states, pending_bookings, pc, last, seen>>

InitGen ==
    /\ build \in {"backend", "monolith"}
    /\ rooms = [r \in ROOM_NUMBERS |-> FreshRow]
    /\ states = <<>>
    /\ pending_bookings = <<>>
    /\ pc = [a \in Admins |-> Idle]
    /\ last = NoOp
    /\ abandoned = 0
    /\ seen = NotSeen

NextGen ==
    \/ Respond
    \/ \E s \in Sessions : Turn(s) /\ last'.hsrc \notin RagSources
    \/ \E s \in Sessions : ClearSession(s)
    \/ \E s \in Sessions : AskRag(s)
    \/ \E g \in {"ok", "oom", "error"} : Generated(g)
    \/ TimedOut
    \/ LateDone

\* The event loop goes on, and a running timer fires; nothing makes the generator finish.
SpecGen == InitGen /\ [][NextGen]_vars /\ WF_vars(Respond) /\ WF_vars(TimedOut)

(***************************************************************************)
(* detect_booking_intent on its own, in either build, for any text and any *)
(* condition of the embedding model.                                       *)
(***************************************************************************)
IntentScores == {0, BOOKING_SIMILARITY_THRESHOLD - 1, BOOKING_SIMILARITY_THRESHOLD,
                 BOOKING_SIMILARITY_THRESHOLD + 1, 100}
IntentTexts ==
    {[Plain EXCEPT !.kw = k, !.score = sc, !.price = p] :
        k \in BOOLEAN, sc \in IntentScores, p \in BOOLEAN}

DetectBookingIntent ==
    /\ last = NoOp
    /\ \E m \in IntentTexts, em \in {"ok", "missing", "raises"} :
         last' = [NoOp EXCEPT !.op = "detect_booking_intent", !.msg = m,
                     !.env = [Quiet EXCEPT !.embed = em],
                     !.intent = detect_booking_intent(build, m, em)]
    /\ UNCHANGED <<build, rooms, states, pending_bookings, pc, abandoned, seen>>

NextIntent ==
    \/ Respond
    \/ DetectBookingIntent

SpecIntent == InitGen /\ [][NextIntent]_vars

(***************************************************************************)
(* routes/room_routes.py: GET /rooms/available/ beside manual bookings and *)
(* cancellations.  seen keeps the previous answer and the table it was     *)
(* read from; again tells that the table was the same as the time before.  *)
(***************************************************************************)
GetAvailableRooms ==
    /\ last = NoOp
    /\ LET q == select_available(rooms) IN
       /\ rooms' = q.rooms
       /\ last' = [NoOp EXCEPT !.op = "list", !.listed = q.listed]
       /\ seen' = [called |-> TRUE, again |-> (seen.called /\ seen.rooms = rooms),
                   rooms |-> rooms, listed |-> q.listed]
    /\ UNCHANGED <<build, states, pending_bookings, pc, abandoned>>

NextList ==
    \/ Respond
    \/ GetAvailableRooms
    \/ \E a \in ChatAdmins, r \in ROOM_NUMBERS : ManualCheck(a, r)
    \/ \E a \in ChatAdmins : ManualBook(a)
    \/ \E a \in ChatAdmins, r \in ROOM_NUMBERS : CancelCheck(a, r)
    \/ \E a \in ChatAdmins : CancelWrite(a)

SpecList == Init /\ [][NextList]_vars

(***************************************************************************)
(* Turns whose text, whatever the state, may also hold a booking keyword   *)
(* or resemble the booking phrase: a booking request or a general question *)
(* typed in the middle of a booking.                                       *)
(***************************************************************************)
AnyMsgsIn(state) ==
    {[m EXCEPT !.kw = k, !.score = sc] : m \in MsgsIn(state), k \in BOOLEAN, sc \in Scores}

\* POST /ask/ with such a text.
MidFlowTurn(s) ==
    /\ last = NoOp
    /\ \E m \in AnyMsgsIn(get_state(states, s)), e \in EnvsIn(get_state(states, s)) :
         LET o == generate_orchestrated_answer(build, states, pending_bookings, rooms, s, m, e) IN
         /\ states' = o.h.states
         /\ pending_bookings' = o.h.pending
         /\ rooms' = o.h.rooms
         /\ last' = [TurnRecord(s, get_state(states, s), m, e, o) EXCEPT !.msg = m]
    /\ UNCHANGED <<build, pc, abandoned, seen>>

NextFlow ==
    \/ Respond
    \/ \E s \in Sessions : MidFlowTurn(s)
    \/ \E s \in Sessions : ClearSession(s)

SpecFlow == InitGen /\ [][NextFlow]_vars

(***************************************************************************)
(* A session that only ever asks general questions, beside sessions that   *)
(* book: its turns are those made in NORMAL that the classifier does not   *)
(* take for a booking request, with the generator answering, timing out or *)
(* failing; clear_session may be called for any session.                   *)
(***************************************************************************)
Asker == 1

\* POST /ask/ with a general question of a session in NORMAL.
Question(s) ==
    /\ last = NoOp
    /\ get_state(states, s) = "NORMAL"
    /\ \E m \in AnyMsgsIn("NORMAL"), e \in EnvsIn("NORMAL") :
         LET o == generate_orchestrated_answer(build, states, pending_bookings, rooms, s, m, e) IN
         /\ ~detect_booking_intent(build, m, e.embed)
         /\ states' = o.h.states
         /\ pending_bookings' = o.h.pending
         /\ rooms' = o.h.rooms
         /\ last' = [TurnRecord(s, "NORMAL", m, e, o) EXCEPT !.msg = m]
    /\ UNCHANGED <<build, pc, abandoned, seen>>

NextAsk ==
    \/ Respond
    \/ Question(Asker)
    \/ \E s \in Sessions \ {Asker} : Turn(s)
    \/ \E s \in Sessions : ClearSession(s)

SpecAsk == InitGen /\ [][NextAsk]_vars

IsTurn == last'.op = "turn"
TurnIn(state) == IsTurn /\ get_state(states, last'.who) = state
HandlerRan == last'.hsrc # "NONE"
HandlerReturned == last'.hsrc \notin {"NONE", "RAISED"}
PriceSeen == build = "backend" /\ last'.price
Cleared(s) == s \notin DOMAIN states' /\ s \notin DOMAIN pending_bookings'
IsBooking == last'.op \in {"turn", "manual"} /\ last'.books = 1

\* C1: of the booking attempts on a room (chatbot confirmations and manual bookings,
\* all through book_room_in_db) at most one returns true until the room is cancelled:
\* an attempt returns true only on an Available room and leaves it Booked with its own
\* dates and note; an attempt on a Booked room returns false; an attempt that returns
\* false changes no row and, made by a chatbot session, answers "try again"; and a
\* Booked row changes only by a cancellation.
C1_AtMostOneBookingWins ==
    [][/\ IsBooking =>
            LET r == last'.room IN
            /\ last'.ok =>
                 /\ rooms[r].status = "Available"
                 /\ rooms' = [rooms EXCEPT
                                ![r] = Row("Booked", last'.dates[1], last'.dates[2], last'.note)]
            /\ rooms[r].status = "Booked" => ~last'.ok
            /\ ~last'.ok =>
                 /\ rooms' = rooms
                 /\ last'.op = "turn" => (last'.hreply = "TRY_AGAIN" /\ last'.hsrc = "ERROR")
       /\ \A r \in ROOM_NUMBERS :
            (rooms[r].status = "Booked" /\ rooms'[r] # rooms[r]) => last'.op = "cancel"
      ]_vars

\* A chatbot confirmation has just lost the room to a manual booking.
C1_Witness ==
    /\ last.op = "turn" /\ last.books = 1 /\ ~last.ok /\ last.hreply = "TRY_AGAIN"
    /\ rooms[last.room] = Row("Booked", rooms[last.room].reserveStartDate,
                              rooms[last.room].reserveEndDate, NoteManual)

\* C2: from NORMAL, the turns [booking intent, valid available room, parseable dates,
\* confirmation keyword] always end with the session in NORMAL, source BOOKING_CONFIRMED
\* and the chosen room Booked, whatever other sessions and booking routes did meanwhile.
\* (Stated for the turns that carry no price keyword and in which no chat_history write
\* and no inventory statement fails.)
C2_AlwaysConfirmed ==
    [][(/\ TurnIn("AWAITING_BOOKING_CONFIRMATION")
        /\ last'.confirm /\ ~last'.price /\ ~last'.dberr
        /\ HandlerReturned /\ last'.reply = last'.hreply)
       => /\ get_state(states', last'.who) = "NORMAL"
          /\ last'.src = "BOOKING_CONFIRMED"
          /\ rooms'[pending_bookings[last'.who].room].status = "Booked"
      ]_vars

\* C2 as amended: the confirmation turn always ends with the session cleared to NORMAL;
\* its handler returns BOOKING_CONFIRMED, leaving the chosen room Booked with the draft's
\* dates and the session's note, exactly when the room was still Available and the store
\* did not fail; otherwise it returns ERROR with the try-again reply and changes no row.
\* The turn returns what the handler returned when both chat_history rows were written,
\* and an apology with source ERROR (or the exception of the apology's own write) if not.
C2_ConfirmedIffStillAvailable ==
    [][(TurnIn("AWAITING_BOOKING_CONFIRMATION") /\ last'.confirm /\ ~PriceSeen /\ HandlerRan)
       => LET s == last'.who
              d == pending_bookings[s]
          IN /\ Cleared(s)
             /\ get_state(states', s) = "NORMAL"
             /\ last'.hsrc \in {"BOOKING_CONFIRMED", "ERROR"}
             /\ last'.hsrc = "BOOKING_CONFIRMED" <=>
                    (rooms[d.room].status = "Available" /\ ~last'.dberr)
             /\ last'.hsrc = "BOOKING_CONFIRMED" =>
                    /\ last'.hreply = "SUCCESS"
                    /\ rooms' = [rooms EXCEPT ![d.room] =
                                    Row("Booked", d.start_date, d.end_date, NoteChat(s))]
             /\ last'.hsrc = "ERROR" => (rooms' = rooms /\ last'.hreply = "TRY_AGAIN")
             /\ IF last'.rows = <<"user:input", "assistant:" \o last'.hreply>>
                THEN last'.src = last'.hsrc /\ last'.reply = last'.hreply
                ELSE last'.src \in {"ERROR", "RAISED"} /\ last'.reply \in {"APOLOGY", "NONE"}
      ]_vars

\* A confirmation turn has just ended in ERROR because another session holds the room.
C2_Witness ==
    /\ last.op = "turn" /\ last.confirm /\ last.books = 1 /\ last.hsrc = "ERROR"
    /\ rooms[last.room].status = "Booked"
    /\ rooms[last.room].note.kind = "chatbot" /\ rooms[last.room].note.session # last.who

\* C3: when the book_room_in_db call of a confirmation turn returns false (the room is
\* no longer Available, or the store reported an error), the handler clears the session
\* to NORMAL with no draft, returns the try-again reply with source ERROR, has called
\* book_room_in_db exactly once, and no row of the rooms table has changed.
C3_LostRaceClearsWithoutRetry ==
    [][(/\ TurnIn("AWAITING_BOOKING_CONFIRMATION")
        /\ last'.confirm /\ ~PriceSeen /\ last'.books > 0 /\ ~last'.ok)
       => LET s == last'.who
              d == pending_bookings[s]
          IN /\ rooms[d.room].status # "Available" \/ last'.dberr
             /\ Cleared(s)
             /\ get_state(states', s) = "NORMAL"
             /\ last'.hreply = "TRY_AGAIN" /\ last'.hsrc = "ERROR"
             /\ last'.books = 1
             /\ rooms' = rooms
      ]_vars

\* A confirmation has just lost the race without any store error: the turn answered
\* try-again, the session is gone from both maps, the room is Booked by someone else.
C3_Witness ==
    /\ last.op = "turn" /\ last.confirm /\ last.books = 1 /\ ~last.ok /\ ~last.dberr
    /\ last.rows = <<"user:input", "assistant:TRY_AGAIN">>
    /\ last.who \notin DOMAIN states /\ last.who \notin DOMAIN pending_bookings
    /\ rooms[last.room].status = "Booked" /\ rooms[last.room].note # NoteChat(last.who)

\* C4: in AWAITING_BOOKING_CONFIRMATION a message with no confirmation keyword and no
\* price keyword returns BOOKING_CANCELLED, leaves the session in NORMAL with no draft,
\* calls book_room_in_db not at all and leaves every row of the rooms table unchanged.
C4_DeclineCancelsDraft ==
    [][(/\ TurnIn("AWAITING_BOOKING_CONFIRMATION")
        /\ ~last'.confirm /\ ~last'.price /\ HandlerRan)
       => LET s == last'.who
          IN /\ last'.hsrc = "BOOKING_CANCELLED" /\ last'.hreply = "CANCELLED"
             /\ Cleared(s)
             /\ get_state(states', s) = "NORMAL"
             /\ last'.books = 0
             /\ rooms' = rooms
      ]_vars

\* A booking has just been declined: the session is cleared, its room is still Available.
C4_Witness ==
    /\ last.op = "turn" /\ last.src = "BOOKING_CANCELLED" /\ ~last.confirm
    /\ last.who \notin DOMAIN states /\ last.who \notin DOMAIN pending_bookings
    /\ rooms[last.room] = FreshRow

\* C5: in each awaiting state a message with a price-inquiry keyword returns source
\* FOCUS_ON_BOOKING and leaves the session state, the draft and the rooms table unchanged,
\* whatever else the message contains.
C5_PriceInquiryRedirects ==
    [][(/\ IsTurn
        /\ get_state(states, last'.who) \in
              {"AWAITING_ROOM_CHOICE", "AWAITING_DATES", "AWAITING_BOOKING_CONFIRMATION"}
        /\ last'.price /\ HandlerRan)
       => /\ last'.hsrc = "FOCUS_ON_BOOKING"
          /\ states' = states
          /\ pending_bookings' = pending_bookings
          /\ rooms' = rooms
      ]_vars

\* C6: a session has a draft if and only if its state is not NORMAL.
C6_DraftIffNotNormal ==
    \A s \in Sessions : HasDraft(pending_bookings, s) <=> get_state(states, s) # "NORMAL"

\* C6 as amended: a session has a draft if and only if its state is AWAITING_DATES or
\* AWAITING_BOOKING_CONFIRMATION (none in NORMAL and none in AWAITING_ROOM_CHOICE); the
\* draft names a room of the fixed set, with no dates in AWAITING_DATES and with both
\* dates, start not after end, in AWAITING_BOOKING_CONFIRMATION.
C6_DraftIffRoomChosen ==
    \A s \in Sessions :
        /\ HasDraft(pending_bookings, s) <=>
               get_state(states, s) \in {"AWAITING_DATES", "AWAITING_BOOKING_CONFIRMATION"}
        /\ HasDraft(pending_bookings, s) =>
               LET d == pending_bookings[s] IN
               /\ d.room \in ROOM_NUMBERS
               /\ get_state(states, s) = "AWAITING_DATES" =>
                      (d.start_date = NoDate /\ d.end_date = NoDate)
               /\ get_state(states, s) = "AWAITING_BOOKING_CONFIRMATION" =>
                      (d.start_date # NoDate /\ d.start_date <= d.end_date)

\* One session waits for a room choice without a draft while another, its room chosen,
\* holds a draft.
C6_Witness ==
    /\ \E s \in Sessions :
          get_state(states, s) = "AWAITING_ROOM_CHOICE" /\ ~HasDraft(pending_bookings, s)
    /\ \E s \in Sessions :
          get_state(states, s) = "AWAITING_DATES" /\ HasDraft(pending_bookings, s)

\* C7: in NORMAL a message classified as booking intent moves the session to
\* AWAITING_ROOM_CHOICE with source BOOKING_SUGGESTION, whatever the inventory contains.
C7_IntentAlwaysSuggests ==
    [][(TurnIn("NORMAL") /\ last'.intent /\ HandlerReturned)
       => /\ get_state(states', last'.who) = "AWAITING_ROOM_CHOICE"
          /\ last'.hsrc = "BOOKING_SUGGESTION"
      ]_vars

\* C7 as amended: in NORMAL a message classified as booking intent moves the session to
\* AWAITING_ROOM_CHOICE with source BOOKING_SUGGESTION when at least one room is
\* Available; when none is, the turn returns STATUS_CHECK and the session stays in
\* NORMAL.  Neither case creates a draft or changes a row.
C7_IntentSuggestsWhenRoomAvailable ==
    [][(TurnIn("NORMAL") /\ last'.intent /\ HandlerReturned)
       => LET s == last'.who IN
          /\ get_available_rooms_from_db(rooms) # {} =>
                /\ get_state(states', s) = "AWAITING_ROOM_CHOICE"
                /\ last'.hsrc = "BOOKING_SUGGESTION" /\ last'.hreply = "ROOM_LIST"
          /\ get_available_rooms_from_db(rooms) = {} =>
                /\ get_state(states', s) = "NORMAL"
                /\ last'.hsrc = "STATUS_CHECK" /\ last'.hreply = "NO_ROOMS"
          /\ pending_bookings' = pending_bookings
          /\ ~HasDraft(pending_bookings', s)
          /\ rooms' = rooms
      ]_vars

\* A booking-intent turn has just been answered STATUS_CHECK with every room Booked.
C7_Witness ==
    /\ last.op = "turn" /\ last.intent /\ last.src = "STATUS_CHECK"
    /\ get_state(states, last.who) = "NORMAL"
    /\ \A r \in ROOM_NUMBERS : rooms[r].status = "Booked"

\* Tokens of a message that are room numbers, and the position of the first of them.
RoomPositions(w) == {i \in 1..Len(w) : w[i] \in ROOM_NUMBERS}
FirstRoomToken(w) ==
    IF RoomPositions(w) = {} THEN NoRoom
    ELSE w[CHOOSE i \in RoomPositions(w) : \A j \in RoomPositions(w) : i <= j]

\* C8: in AWAITING_ROOM_CHOICE a message (no price keyword) with at least one token that
\* is the number of a currently Available room moves the session to AWAITING_DATES with
\* draft {room: that number} and source DATE_REQUEST, whatever its other tokens; every
\* other message leaves the state at AWAITING_ROOM_CHOICE and creates no draft.
C8_AnyAvailableTokenSelects ==
    [][(TurnIn("AWAITING_ROOM_CHOICE") /\ ~last'.price /\ HandlerReturned)
       => LET s == last'.who
              avail == {r \in RoomTokens(last'.words) : rooms[r].status = "Available"}
          IN IF avail # {}
             THEN /\ get_state(states', s) = "AWAITING_DATES"
                  /\ HasDraft(pending_bookings', s)
                  /\ pending_bookings'[s].room \in avail
                  /\ last'.hsrc = "DATE_REQUEST"
             ELSE /\ get_state(states', s) = "AWAITING_ROOM_CHOICE"
                  /\ ~HasDraft(pending_bookings', s)
      ]_vars

\* C8 as amended: the first token that is a room number decides.  If that room is
\* Available the session moves to AWAITING_DATES with draft {room: that number} and source
\* DATE_REQUEST; if it is not, the turn returns STATUS_CHECK, and with no room-number
\* token INVALID_ROOM, the state staying AWAITING_ROOM_CHOICE with no draft.  Later
\* room numbers in the message are not looked at.  No row changes.
C8_FirstRoomTokenDecides ==
    [][(TurnIn("AWAITING_ROOM_CHOICE") /\ ~last'.price /\ HandlerReturned)
       => LET s == last'.who
              r == FirstRoomToken(last'.words)
          IN /\ IF r # NoRoom /\ rooms[r].status = "Available"
                THEN /\ get_state(states', s) = "AWAITING_DATES"
                     /\ HasDraft(pending_bookings', s)
                     /\ pending_bookings'[s] = Draft(r, NoDate, NoDate)
                     /\ last'.hsrc = "DATE_REQUEST"
                ELSE /\ get_state(states', s) = "AWAITING_ROOM_CHOICE"
                     /\ ~HasDraft(pending_bookings', s)
                     /\ last'.hsrc = IF r = NoRoom THEN "INVALID_ROOM" ELSE "STATUS_CHECK"
             /\ rooms' = rooms
      ]_vars

\* A message naming a Booked room first and an Available room second has just been
\* answered STATUS_CHECK, the session still choosing a room.
C8_Witness ==
    /\ last.op = "turn" /\ ~last.price /\ last.src = "STATUS_CHECK"
    /\ get_state(states, last.who) = "AWAITING_ROOM_CHOICE"
    /\ Len(last.words) = 2
    /\ last.words[1] \in ROOM_NUMBERS /\ rooms[last.words[1]].status = "Booked"
    /\ last.words[2] \in ROOM_NUMBERS /\ rooms[last.words[2]].status = "Available"

\* C9: in AWAITING_DATES a message for which parse_dates returns a pair moves the session
\* to AWAITING_BOOKING_CONFIRMATION with the draft's room unchanged and its dates set to
\* the pair (source CONFIRMATION_REQUEST); one for which parse_dates returns None returns
\* INVALID_DATE and leaves state and draft unchanged.
C9_ParsedPairAdvances ==
    [][(TurnIn("AWAITING_DATES") /\ HandlerReturned)
       => LET s == last'.who IN
          IF last'.parsed # NoDates
          THEN /\ get_state(states', s) = "AWAITING_BOOKING_CONFIRMATION"
               /\ pending_bookings'[s] =
                     Draft(pending_bookings[s].room, last'.parsed[1], last'.parsed[2])
               /\ last'.hsrc = "CONFIRMATION_REQUEST"
          ELSE /\ last'.hsrc = "INVALID_DATE"
               /\ get_state(states', s) = "AWAITING_DATES"
               /\ pending_bookings' = pending_bookings
      ]_vars

\* C9 as amended: the same, for messages that contain no price-inquiry keyword (with
\* one, the turn returns FOCUS_ON_BOOKING and parse_dates is not called).  No row changes
\* and no other session's entry changes.
C9_ParsedPairAdvancesUnlessPriceAsked ==
    [][(TurnIn("AWAITING_DATES") /\ HandlerReturned /\ ~last'.price)
       => LET s == last'.who IN
          /\ IF last'.parsed # NoDates
             THEN /\ states' = (s :> "AWAITING_BOOKING_CONFIRMATION") @@ states
                  /\ pending_bookings' =
                        (s :> Draft(pending_bookings[s].room, last'.parsed[1], last'.parsed[2]))
                           @@ pending_bookings
                  /\ last'.hsrc = "CONFIRMATION_REQUEST"
             ELSE /\ last'.hsrc = "INVALID_DATE"
                  /\ states' = states
                  /\ pending_bookings' = pending_bookings
          /\ rooms' = rooms
      ]_vars

\* A message without calendar dates has just been answered INVALID_DATE, the draft still
\* holding its room and no dates.
C9_Witness ==
    /\ last.op = "turn" /\ last.src = "INVALID_DATE" /\ last.parsed = NoDates
    /\ get_state(states, last.who) = "AWAITING_DATES"
    /\ HasDraft(pending_bookings, last.who)
    /\ pending_bookings[last.who].start_date = NoDate

\* C10: under any interleaving of book_room_in_db, update_room_booking and
\* cancel_room_booking, a room has a reservation (both dates set) if and only if its
\* status is Booked.
C10_ReservationIffBooked ==
    \A r \in ROOM_NUMBERS :
        (rooms[r].reserveStartDate # NoDate /\ rooms[r].reserveEndDate # NoDate)
            <=> rooms[r].status = "Booked"

\* C11: among chatbot turns only a confirmation-keyword turn in
\* AWAITING_BOOKING_CONFIRMATION changes the rooms table, by the one conditional update
\* of book_room_in_db: the draft's room goes from Available to Booked with the draft's
\* dates and the session's note, and no other row changes.  Every other turn (proposing
\* rooms, choosing a room, entering dates, price interjection, declining, RAG) leaves
\* the table as it was.
C11_OnlyConfirmationWritesInventory ==
    [][(IsTurn /\ rooms' # rooms)
       => LET s == last'.who IN
          /\ get_state(states, s) = "AWAITING_BOOKING_CONFIRMATION"
          /\ last'.confirm /\ ~PriceSeen
          /\ last'.books = 1 /\ last'.ok
          /\ HasDraft(pending_bookings, s)
          /\ rooms[pending_bookings[s].room].status = "Available"
          /\ rooms' = [rooms EXCEPT ![pending_bookings[s].room] =
                          Row("Booked", pending_bookings[s].start_date,
                              pending_bookings[s].end_date, NoteChat(s))]
      ]_vars

\* A session has just chosen a room for which another session already holds a draft;
\* the room is still Available and no row carries a reservation.
C11_Witness ==
    /\ last.op = "turn" /\ last.src = "DATE_REQUEST"
    /\ \E b \in Sessions \ {last.who} :
          /\ HasDraft(pending_bookings, b) /\ HasDraft(pending_bookings, last.who)
          /\ pending_bookings[b].room = pending_bookings[last.who].room
    /\ \A r \in ROOM_NUMBERS : rooms[r] = FreshRow

\* What the ConversationManager holds for session b: its states entry and its draft.
SessionEntry(st, pb, b) ==
    [state |-> IF b \in DOMAIN st THEN {st[b]} ELSE {},
     draft |-> IF b \in DOMAIN pb THEN {pb[b]} ELSE {}]

\* C12: a turn or a clear_session call of session A never changes the state entry or the
\* draft of any other session B.
C12_OtherSessionsUntouched ==
    [][(last'.op \in {"turn", "clear"})
       => \A b \in Sessions \ {last'.who} :
             SessionEntry(states', pending_bookings', b)
                = SessionEntry(states, pending_bookings, b)
      ]_vars

\* A confirmation turn has just cleared its own session while another session is in the
\* middle of a booking with a draft.
C12_Witness ==
    /\ last.op = "turn" /\ last.books = 1
    /\ last.who \notin DOMAIN states
    /\ \E b \in Sessions \ {last.who} :
          /\ get_state(states, b) = "AWAITING_BOOKING_CONFIRMATION"
          /\ HasDraft(pending_bookings, b)

\* C13: a failing chat_history write (of the user's row or of the reply's row) is never
\* surfaced: the dispatched handler still runs, the caller receives exactly the reply
\* and source the handler produced, and no exception leaves generate_orchestrated_answer.
C13_HistoryFailureNeverSurfaced ==
    [][(IsTurn /\ last'.env.hist # "none")
       => /\ HandlerReturned
          /\ last'.src = last'.hsrc
          /\ last'.reply = last'.hreply
      ]_vars

\* C14: an exception raised during a turn by a handler or an inventory read is caught
\* at the top level of generate_orchestrated_answer: the caller gets the fixed apology
\* with source ERROR instead of an exception, and the user message and the apology are
\* both appended to history (the chat_history writes themselves working).
C14_ExceptionBecomesApology ==
    [][(IsTurn /\ last'.hsrc = "RAISED" /\ ~last'.env.errw)
       => /\ last'.src = "ERROR"
          /\ last'.reply = "APOLOGY"
          /\ Len(last'.rows) = 2
          /\ last'.rows[1] = "user:input"
          /\ last'.rows[2] \in {"assistant:APOLOGY", "bot:APOLOGY"}
      ]_vars

\* C15: every call of generate_orchestrated_answer eventually returns a (reply, source)
\* pair, even if the generator never completes: a turn that has started the generator
\* leads to the turn's result.
C15_TurnReturns == (last.op = "generating") ~> (last.op = "turn")

\* C16: on the RAG path of app.py, when generation does not finish within
\* LLM_TIMEOUT_SECONDS the returned reply is the one made from the retrieved context
\* alone, the source is RAG_CONTEXT_ONLY_TIMEOUT and that reply is the row written after
\* the user's; when the generator left behind finishes, nothing is returned or written.
C16_TimeoutFallsBackToContext ==
    [][/\ (build = "monolith" /\ last.op = "generating" /\ abandoned' = abandoned + 1)
          => /\ last'.op = "turn"
             /\ last'.reply = "CONTEXT_ONLY"
             /\ last'.src = "RAG_CONTEXT_ONLY_TIMEOUT"
             /\ last'.rows = <<"user:input", "bot:CONTEXT_ONLY">>
       /\ (abandoned' < abandoned)
          => UNCHANGED <<last, rooms, states, pending_bookings>>
      ]_vars

\* The turn timed out and its generator has finished while the answer is on its way.
C16_Witness ==
    /\ build = "monolith"
    /\ last.op = "turn" /\ last.env.gen = "timeout"
    /\ last.src = "RAG_CONTEXT_ONLY_TIMEOUT"
    /\ abandoned = 0

\* C17: when the generator fails with resource exhaustion or any other exception during
\* a RAG turn, the reply is the apology and the source differs from the source of a
\* successful full generation.
C17_GeneratorFailureTagged ==
    [][(IsTurn /\ ~last'.intent /\ last'.env.gen \in {"oom", "error"})
       => /\ last'.reply = "LLM_APOLOGY"
          /\ last'.src # rag_answer(build, states, pending_bookings, rooms, Quiet).src
      ]_vars

\* C18: every source returned by generate_orchestrated_answer belongs to the fixed
\* vocabulary BOOKING_SUGGESTION, INVALID_ROOM, STATUS_CHECK, DATE_REQUEST, INVALID_DATE,
\* CONFIRMATION_REQUEST, BOOKING_CONFIRMED, BOOKING_CANCELLED, ERROR, FOCUS_ON_BOOKING,
\* RAG_<generator variant>, RAG_CONTEXT_ONLY, RAG_CONTEXT_ONLY_TIMEOUT, LLM_ERROR.
C18_SourceInVocabulary ==
    [][(IsTurn /\ last'.src # "RAISED")
       => last'.src \in {"BOOKING_SUGGESTION", "INVALID_ROOM", "STATUS_CHECK", "DATE_REQUEST",
                         "INVALID_DATE", "CONFIRMATION_REQUEST", "BOOKING_CONFIRMED",
                         "BOOKING_CANCELLED", "ERROR", "FOCUS_ON_BOOKING",
                         "RAG_FINETUNED_LLM", "RAG_LLAMACPP",
                         "RAG_CONTEXT_ONLY", "RAG_CONTEXT_ONLY_TIMEOUT", "LLM_ERROR"}
      ]_vars

\* C19: in every turn in which the history store does not fail, exactly two rows are
\* appended for the session: first the user's input, then the reply that is returned
\* (the apology on the ERROR path).
C19_TwoRowsPerTurn ==
    [][(IsTurn /\ last'.env.hist = "none" /\ ~last'.env.errw)
       => /\ Len(last'.rows) = 2
          /\ last'.rows[1] = "user:input"
          /\ last'.rows[2] \in {"assistant:" \o last'.reply, "bot:" \o last'.reply}
      ]_vars

\* C20: the rooms listed in a BOOKING_SUGGESTION reply, and in the STATUS_CHECK re-prompt
\* of handle_room_selection, are exactly the rooms whose status is Available in the
\* inventory when the turn runs; a session's entry holds a state name and a draft of
\* room and dates, nothing about availability.
C20_ListedRoomsAreAvailableNow ==
    [][IsTurn
       => /\ (last'.hsrc = "BOOKING_SUGGESTION"
              \/ (TurnIn("AWAITING_ROOM_CHOICE") /\ last'.hsrc = "STATUS_CHECK"))
             => last'.listed = {r \in ROOM_NUMBERS : rooms[r].status = "Available"}
          /\ \A s \in DOMAIN states' :
                states'[s] \in {"AWAITING_ROOM_CHOICE", "AWAITING_DATES",
                                "AWAITING_BOOKING_CONFIRMATION"}
          /\ \A s \in DOMAIN pending_bookings' :
                DOMAIN pending_bookings'[s] = {"room", "start_date", "end_date"}
      ]_vars

\* A session that was shown both rooms asks for one that has been booked since and is
\* shown the one that is left.
C20_Witness ==
    /\ last.op = "turn" /\ last.hsrc = "STATUS_CHECK"
    /\ get_state(states, last.who) = "AWAITING_ROOM_CHOICE"
    /\ last.room # NoRoom
    /\ rooms[last.room].status = "Booked"
    /\ last.listed = ROOM_NUMBERS \ {last.room}

\* C21: once a room is Booked, every book_room_in_db call for it returns false and
\* leaves the table alone, whatever dates it asks for, and the room becomes Available
\* again only through cancel_room_booking.
C21_BookedRoomRefusesAllDates ==
    [][/\ (IsBooking /\ rooms[last'.room].status = "Booked")
          => (~last'.ok /\ rooms' = rooms)
       /\ \A r \in ROOM_NUMBERS :
             (rooms[r].status = "Booked" /\ rooms'[r].status = "Available")
             => (last'.op = "cancel" /\ last'.room = r)
      ]_vars

\* A booking for dates after the reservation the room carries has just been refused.
C21_Witness ==
    /\ last.op \in {"turn", "manual"} /\ last.books = 1
    /\ ~last.ok /\ ~last.dberr
    /\ rooms[last.room].status = "Booked"
    /\ rooms[last.room].reserveEndDate < last.dates[1]

\* C22: clear_session(s) returns true iff the store held a state entry or a draft for
\* s; afterwards get_state(s) is NORMAL and s has no draft, so that a clear_session(s)
\* of a store holding nothing for s returns false; get_state of an id not in the store
\* returns NORMAL and creates no entry.
C22_ClearReportsPresence ==
    [][/\ (last'.op = "clear")
          => LET s == last'.who IN
             /\ last'.ok = ((s \in DOMAIN states) \/ (s \in DOMAIN pending_bookings))
             /\ get_state(states', s) = "NORMAL"
             /\ ~HasDraft(pending_bookings', s)
             /\ s \notin DOMAIN states'
       /\ (last'.op = "get_state")
          => /\ last'.reply = IF last'.who \in DOMAIN states THEN states[last'.who]
                              ELSE "NORMAL"
             /\ states' = states /\ pending_bookings' = pending_bookings
      ]_vars

\* A clear has returned true and left nothing for its session, in a store where another
\* session has a draft and no state entry.
C22_Witness ==
    /\ last.op = "clear" /\ last.ok
    /\ last.who \notin DOMAIN states /\ last.who \notin DOMAIN pending_bookings
    /\ \E b \in Sessions \ {last.who} :
          b \in DOMAIN pending_bookings /\ b \notin DOMAIN states

\* One match is an earlier calendar date than another: by year, then month, then day.
Earlier(a, b) ==
    \/ a[3] < b[3]
    \/ (a[3] = b[3] /\ a[2] < b[2])
    \/ (a[3] = b[3] /\ a[2] = b[2] /\ a[1] <= b[1])

ValidDate(a) == a[3] >= 1 /\ a[2] \in 1..12 /\ a[1] \in 1..days_in_month(a[3], a[2])

\* The pair of two valid dates, earlier first, as the ordinals parse_dates returns.
SortedPair(a, b) ==
    IF Earlier(a, b) THEN <<toordinal(a[1], a[2], a[3]), toordinal(b[1], b[2], b[3])>>
    ELSE <<toordinal(b[1], b[2], b[3]), toordinal(a[1], a[2], a[3])>>

\* C23: for two valid calendar dates d1, d2 written as D/M/YYYY, parse_dates of a text
\* with d1 then d2 and of a text with d2 then d1 return the same pair, the earlier date
\* first; whenever a pair is returned its start is not later than its end.
C23_PairSortedWhateverOrder ==
    [][(last'.op = "parse_dates")
       => /\ (Len(last'.matches) >= 2 /\ ValidDate(last'.matches[1])
                                      /\ ValidDate(last'.matches[2]))
             => /\ last'.parsed = SortedPair(last'.matches[1], last'.matches[2])
                /\ last'.parsed = SortedPair(last'.matches[2], last'.matches[1])
          /\ (Len(last'.parsed) = 2) => (last'.parsed[1] <= last'.parsed[2])
      ]_vars

\* The text gave 1/2/2025 before 31/1/2025 and the pair came back with 31/1/2025 first.
C23_Witness ==
    /\ last.op = "parse_dates" /\ Len(last.matches) >= 2
    /\ last.matches[1] = <<1, 2, 2025>> /\ last.matches[2] = <<31, 1, 2025>>
    /\ last.parsed = <<toordinal(31, 1, 2025), toordinal(1, 2, 2025)>>

\* C24: for a text with no explicit date pair, parse_dates returns (today+1, today+1+n)
\* if the text has a tomorrow marker and a '<n> <unit>' duration phrase, and None if it
\* has the marker without a duration phrase or no marker at all.
C24_RelativeNeedsMarkerAndDuration ==
    [][(last'.op = "parse_dates" /\ Len(last'.matches) < 2)
       => IF last'.msg.tomorrow /\ last'.msg.dur # NoDur
          THEN last'.parsed = <<Today + 1, Today + 1 + last'.msg.dur>>
          ELSE last'.parsed = NoDates
      ]_vars

\* C25: get_rag_context returns chunk text only when a knowledge base is loaded and the
\* best hit's similarity is strictly greater than the confidence threshold; when the
\* best score does not exceed the threshold the context is exactly the 'no specific
\* data' sentence, and no chunk text is in the generator's prompt.
C25_ChunksOnlyAboveThreshold ==
    [][(last'.op = "get_rag_context")
       => /\ (last'.context.chunks # <<>>)
             => /\ last'.kb
                /\ last'.hits # <<>>
                /\ \A i \in 1..Len(last'.hits) :
                      last'.hits[1].score >= last'.hits[i].score
                /\ last'.hits[1].score > RAG_CONFIDENCE_THRESHOLD
          /\ (/\ last'.kb /\ ~last'.raised
              /\ \A i \in 1..Len(last'.hits) :
                    last'.hits[i].score <= RAG_CONFIDENCE_THRESHOLD)
             => /\ last'.context = [kind |-> "NO_SPECIFIC_DATA", chunks |-> <<>>]
                /\ last'.prompt = {}
      ]_vars

\* The best hit scored exactly the threshold and the context is the sentence.
C25_Witness ==
    /\ last.op = "get_rag_context" /\ last.kb /\ ~last.raised
    /\ Len(last.hits) = RAG_TOP_K
    /\ last.hits[1].score = RAG_CONFIDENCE_THRESHOLD
    /\ last.context.kind = "NO_SPECIFIC_DATA"

\* C26: detect_booking_intent returns true when a booking keyword is in the text;
\* otherwise it returns true iff the similarity to the booking phrase is strictly
\* greater than the threshold; with the embedding model missing or raising it returns
\* false.
C26_IntentByKeywordOrSimilarity ==
    [][(last'.op = "detect_booking_intent")
       => last'.intent =
             (\/ last'.msg.kw
              \/ (last'.env.embed = "ok" /\ last'.msg.score > BOOKING_SIMILARITY_THRESHOLD))
      ]_vars

RepliesOf(state) ==
    CASE state = "AWAITING_ROOM_CHOICE" -> {"FOCUS_ROOM", "NO_ROOM_NUMBER", "ROOM_TAKEN", "ASK_DATES"}
      [] state = "AWAITING_DATES" -> {"FOCUS_DATES", "BAD_DATES", "ASK_CONFIRM"}
      [] state = "AWAITING_BOOKING_CONFIRMATION" ->
            {"RESTART", "FOCUS_CONFIRM", "SUCCESS", "TRY_AGAIN", "CANCELLED"}
      [] OTHER -> {"ROOM_LIST", "NO_ROOMS", "LLM", "LLM_APOLOGY", "CONTEXT_ONLY"}

\* C28: each turn runs the one handler of the session state read at its start.  In an
\* awaiting state the reply is one of that state's handler, whatever booking keyword or
\* resemblance to the booking phrase the text has: the room list is not proposed anew
\* and no generated answer is returned.  Only in NORMAL does the classifier choose
\* between handle_booking_request and RAG plus generation.
C28_StateChoosesTheHandler ==
    [][IsTurn
       => LET s == last'.who
              current_state == get_state(states, s)
          IN /\ last'.hreply \in RepliesOf(current_state) \cup {"NONE"}
             /\ (current_state = "NORMAL" /\ HandlerReturned)
                => (last'.hreply \in {"ROOM_LIST", "NO_ROOMS"}
                      <=> (\/ last'.msg.kw
                           \/ /\ build = "monolith" /\ last'.env.embed = "ok"
                              /\ last'.msg.score > BOOKING_SIMILARITY_THRESHOLD))
      ]_vars

\* A text with a booking keyword, sent while dates were awaited, got the date re-prompt
\* and the session still awaits dates for its room.
C28_Witness ==
    /\ last.op = "turn" /\ last.msg.kw
    /\ last.hreply = "BAD_DATES"
    /\ get_state(states, last.who) = "AWAITING_DATES"
    /\ HasDraft(pending_bookings, last.who)

\* C29: when a text has two or more D/M/YYYY patterns and one of the first two is not a
\* valid calendar date, parse_dates does not fail and returns no pair of grammar 1: the
\* result is what the relative grammar gives for the text, (today+1, today+1+n) if it
\* has a tomorrow marker and a duration phrase, None otherwise.
C29_MalformedPairFallsThrough ==
    [][(/\ last'.op = "parse_dates" /\ Len(last'.matches) >= 2
        /\ (~ValidDate(last'.matches[1]) \/ ~ValidDate(last'.matches[2])))
       => /\ last'.parsed # OverflowError
          /\ IF last'.msg.tomorrow /\ last'.msg.dur # NoDur
             THEN last'.parsed = <<Today + 1, Today + 1 + last'.msg.dur>>
             ELSE last'.parsed = NoDates
      ]_vars

\* C30: with the turns of a session processed one at a time, every reachable session
\* store has, for a session in AWAITING_DATES, a draft with a room of the fixed room set
\* and no dates, and for a session in AWAITING_BOOKING_CONFIRMATION a draft with a room,
\* a start_date and an end_date, the start not later than the end; so no turn ever takes
\* the 'missing draft' branch of handle_booking_confirmation.
C30_DraftMatchesState ==
    /\ \A s \in Sessions :
         /\ get_state(states, s) = "AWAITING_DATES"
            => /\ HasDraft(pending_bookings, s)
               /\ pending_bookings[s].room \in ROOM_NUMBERS
               /\ pending_bookings[s].start_date = NoDate
               /\ pending_bookings[s].end_date = NoDate
         /\ get_state(states, s) = "AWAITING_BOOKING_CONFIRMATION"
            => /\ HasDraft(pending_bookings, s)
               /\ pending_bookings[s].room \in ROOM_NUMBERS
               /\ pending_bookings[s].start_date # NoDate
               /\ pending_bookings[s].end_date # NoDate
               /\ pending_bookings[s].start_date <= pending_bookings[s].end_date
    /\ last.op = "turn" => last.hreply # "RESTART"

\* One session awaits dates for its room while another, whose dates were just read,
\* awaits the confirmation of a stay of several days.
C30_Witness ==
    /\ last.op = "turn" /\ last.hreply = "ASK_CONFIRM"
    /\ get_state(states, last.who) = "AWAITING_BOOKING_CONFIRMATION"
    /\ pending_bookings[last.who].start_date < pending_bookings[last.who].end_date
    /\ \E t \in Sessions \ {last.who} :
          /\ get_state(states, t) = "AWAITING_DATES"
          /\ pending_bookings[t].start_date = NoDate

\* The rooms a step takes from Available to Booked.
NewlyBooked == {r \in ROOM_NUMBERS : rooms[r].status = "Available" /\ rooms'[r].status = "Booked"}

\* C31: a turn of chatbot.py returns source BOOKING_CONFIRMED if and only if it changed a
\* room from Available to Booked: a turn that committed a booking returns no other
\* source and does not raise, also when a chat_history write fails after the commit.
C31_ConfirmedIffBooked ==
    [][(IsTurn /\ build = "backend")
       => (last'.src = "BOOKING_CONFIRMED" <=> NewlyBooked # {})
      ]_vars

\* The edges a chat message can take a session along.
FlowEdges ==
    {<<"NORMAL", "AWAITING_ROOM_CHOICE">>, <<"AWAITING_ROOM_CHOICE", "AWAITING_DATES">>,
     <<"AWAITING_DATES", "AWAITING_BOOKING_CONFIRMATION">>,
     <<"AWAITING_BOOKING_CONFIRMATION", "NORMAL">>}

\* C32: a session's state changes only along NORMAL -> AWAITING_ROOM_CHOICE ->
\* AWAITING_DATES -> AWAITING_BOOKING_CONFIRMATION -> NORMAL, by a message of that
\* session, or to NORMAL by clear_session of that session; no message takes a session
\* from AWAITING_ROOM_CHOICE or AWAITING_DATES back to NORMAL, and a message of a session
\* in AWAITING_ROOM_CHOICE while no room is Available leaves it there.
C32_StateFollowsTheFlow ==
    [][/\ \A s \in Sessions :
            LET from == get_state(states, s)
                to == get_state(states', s)
            IN \/ from = to
               \/ <<from, to>> \in FlowEdges /\ IsTurn /\ last'.who = s
               \/ to = "NORMAL" /\ last'.op = "clear" /\ last'.who = s
       /\ (/\ IsTurn
           /\ get_state(states, last'.who) = "AWAITING_ROOM_CHOICE"
           /\ get_available_rooms_from_db(rooms) = {})
          => get_state(states', last'.who) = "AWAITING_ROOM_CHOICE"
      ]_vars

\* A session asked for a room while every room was Booked and still awaits its choice.
C32_Witness ==
    /\ last.op = "turn" /\ last.hreply = "ROOM_TAKEN"
    /\ get_available_rooms_from_db(rooms) = {}
    /\ get_state(states, last.who) = "AWAITING_ROOM_CHOICE"

\* C33: when a turn of session s returns BOOKING_CONFIRMED, the room booked is the room
\* of s's draft, its reserveStartDate and reserveEndDate are the draft's start_date and
\* end_date and its note names s, and no other room record changes in the turn.  The
\* draft is the one made at room selection and completed in AWAITING_DATES: a draft of s
\* appears only with the room s selected and no dates, and changes afterwards only by
\* receiving the dates read from s's message, the room kept.
C33_BookingIsTheDraft ==
    [][/\ (IsTurn /\ last'.src = "BOOKING_CONFIRMED")
          => LET s == last'.who IN
             /\ HasDraft(pending_bookings, s)
             /\ LET d == pending_bookings[s] IN
                /\ rooms'[d.room] = Row("Booked", d.start_date, d.end_date, NoteChat(s))
                /\ \A q \in ROOM_NUMBERS \ {d.room} : rooms'[q] = rooms[q]
       /\ \A s \in Sessions :
            /\ (~HasDraft(pending_bookings, s) /\ HasDraft(pending_bookings', s))
               => /\ IsTurn /\ last'.who = s /\ last'.hreply = "ASK_DATES"
                  /\ pending_bookings'[s] = Draft(last'.room, NoDate, NoDate)
            /\ (/\ HasDraft(pending_bookings, s) /\ HasDraft(pending_bookings', s)
                /\ pending_bookings'[s] # pending_bookings[s])
               => /\ IsTurn /\ last'.who = s /\ last'.hreply = "ASK_CONFIRM"
                  /\ pending_bookings'[s] =
                        Draft(pending_bookings[s].room, last'.parsed[1], last'.parsed[2])
      ]_vars

\* A confirmed stay of several days, written with the session's note, while another
\* room is still Available.
C33_Witness ==
    /\ last.op = "turn" /\ last.src = "BOOKING_CONFIRMED"
    /\ rooms[last.room].status = "Booked"
    /\ rooms[last.room].note = NoteChat(last.who)
    /\ rooms[last.room].reserveStartDate < rooms[last.room].reserveEndDate
    /\ \E q \in ROOM_NUMBERS \ {last.room} : rooms[q].status = "Available"

\* C34: under any interleaving of cancel_room_booking calls with bookings, a cancel
\* sets a room Available only if, when its UPDATE runs, the room is Booked with the
\* reservation its SELECT returned: a reservation committed after the check is not
\* erased, and of the concurrent cancels of one booking at most one returns true.
C34_CancelErasesOnlyWhatItSaw ==
    [][(last'.op = "cancel" /\ last'.ok)
       => /\ rooms[last'.room].status = "Booked"
          /\ rooms[last'.room] = pc[last'.who].saw
      ]_vars

\* C35: a turn in NORMAL that is not classified as booking intent (retrieval and
\* generation, whether the generator answers, times out or fails) leaves the session
\* store and the room inventory as they were: no state entry and no draft is created,
\* so clear_session of a session that only ever had such turns returns false.
C35_QuestionsLeaveNoTrace ==
    [][/\ (IsTurn /\ get_state(states, last'.who) = "NORMAL" /\ ~last'.intent)
          => /\ states' = states
             /\ pending_bookings' = pending_bookings
             /\ rooms' = rooms
       /\ (last'.op = "clear" /\ last'.who = Asker) => ~last'.ok
      ]_vars

\* The asker's question was answered from the context after a timeout while another
\* session is in the middle of a booking; the asker has no entry in the store.
C35_Witness ==
    /\ last.op = "turn" /\ last.who = Asker
    /\ last.env.gen = "timeout" /\ last.hsrc = "RAG_CONTEXT_ONLY_TIMEOUT"
    /\ Asker \notin DOMAIN states /\ Asker \notin DOMAIN pending_bookings
    /\ \E t \in Sessions \ {Asker} : get_state(states, t) = "AWAITING_DATES"

====
